---------------------------- MODULE Spec2Model ----------------------------
(***************************************************************************)
(* Model of the event-recording core of fw_cycle_monitor                   *)
(* (src/src/fw_cycle_monitor/gpio_monitor.py and state.py): the cycle      *)
(* counter with its daily reset, the CSV event log with its spool of       *)
(* pending rows, and the two persisted states (state.json entry of the     *)
(* machine, sidecar file next to the log).                                 *)
(*                                                                         *)
(* Time is a strictly increasing integer clock.  A day has SlotsPerDay     *)
(* instants; the reset boundary of day d is d * SlotsPerDay + reset_hour.  *)
(* Every read of datetime.now() that stamps an event or a manual reset     *)
(* returns an instant later than every earlier one.                        *)
(*                                                                         *)
(* A file operation that the code guards with "except OSError" may fail;   *)
(* a failing write leaves the file as it was (the open fails).             *)
(***************************************************************************)
EXTENDS Integers, Sequences, FiniteSets, TLC

\* ----------------------------------------------------------------- bounds
MaxTime == 3
MaxTimeConc == 2
MaxFaults == 2
MaxFaultsProcess == 3
MaxFaultsRetry == 1
MaxStamp == 6
MaxCalls == 3
MaxCount == 2
MaxRows == 2            \* data rows of a log file found at the start
MaxLines == 3           \* lines of a log file that grows, the header included

\* the instants of one day (timedelta(days=1)), on the scale of the model's clock
SlotsPerDay == 3

\* -------------------------------------------------------------- constants
Threads == {"hw", "ui"}
MachineId == "M201"
NoThread == "none"

VARIABLES
  mode,                 \* "seq": operations do not overlap, the process may end;
                        \* "proc": operations do not overlap, one process;
                        \* "conc": two threads interleave;
                        \* "retry": as "proc", every operation begun is finished,
                        \* and the statistics are followed;
                        \* "shared": as "proc", and the test events of the GUI;
                        \* "counter": a _CycleCounter on its own;
                        \* "log": _prepare_storage on the text of the log file;
                        \* "load": the two state files as the text they hold;
                        \* "save": _persist_sidecar_state statement by statement;
                        \* "append": two processes append to one log file;
                        \* "store": two processes save to one state file
  gpio_available,       \* _GPIO_AVAILABLE: the import of RPi.GPIO succeeded
  disk,                 \* the files as the text they hold, for the specifications
                        \* below the level of the rows: [log, ...]
  obs,                  \* what the latest operation of those specifications was
                        \* given and what it returned
  now,                  \* the latest instant datetime.now() returned
  reset_hour,           \* AppConfig.reset_hour
  csv,                  \* the log file: [exists, rows]; the header is the 3-column one
  spool,                \* the .pending file: [exists, rows]
  stateStore,           \* the entry of the machine in state.json
  sidecar,              \* the .state.json file next to the log
  counter,              \* _CycleCounter: [count, has_reset, next_reset]
  running,              \* CycleMonitor._running
  counter_initialized,  \* CycleMonitor._counter_initialized
  csv_initialized,      \* CycleMonitor._csv_initialized
  pending_rows,         \* CycleMonitor._pending_rows
  pending_loaded,       \* CycleMonitor._pending_loaded
  lock,                 \* holder of CycleMonitor._lock, or NoThread
  pc,                   \* position of each thread
  ev,                   \* locals of each thread: [ts, tmp, ret, kind]
  faults,               \* number of file operations that have failed so far
  failed,               \* history: the file operations that failed in the operation
                        \* in progress
  hist,                 \* history: the rows _record_event built in this process, in order
  shadow,               \* history: the counter as the latest completed RecordEvent or
                        \* ResetCounter left it (an uninterrupted recorder still has it)
  manual,               \* history: reset_cycle_counter has been called
  fresh_reset,          \* history: reset_cycle_counter was the latest operation on the
                        \* counter of this process
  carried,              \* history: the rows that were pending, the spool file holding
                        \* them, when the process ended
  streak,               \* history: the number of _record_event calls in a row, up to
                        \* now, whose append failed, no other operation in between
  propagated,           \* history: the latest operation ended with the exception of
                        \* the callback raised to its caller
  error,                \* history: the exception the latest start (in the mode
                        \* "load", the latest operation) raised to its caller,
                        \* "none" when it returned
  saved,                \* history: one of the two state saves of that operation at
                        \* least succeeded, and no crash since then hit an operation
                        \* in progress
  events_logged         \* self._stats.events_logged (in the mode "retry")

vars == <<mode, gpio_available, disk, obs, now, reset_hour, csv, spool, stateStore, sidecar, counter, running,
          counter_initialized, csv_initialized, pending_rows, pending_loaded, lock,
          pc, ev, faults, failed, hist, shadow, saved, manual, fresh_reset,
          carried, streak, propagated, error, events_logged>>

\* what no operation of the recorder changes, the files being the rows of
\* csv, spool, stateStore and sidecar there
envVars == <<mode, gpio_available, disk, obs>>

hvars == <<shadow, saved, manual, fresh_reset, carried, streak, propagated, error>>

fsVars == <<csv, spool, stateStore, sidecar>>
instVars == <<counter, running, counter_initialized, csv_initialized, pending_rows,
              pending_loaded>>

\* ------------------------------------------------------------------ faults
\* the outcomes of a file operation: it may fail while the budget lasts, and only
\* where the code attempts it; the interleaved specification injects no failure
FaultBudget ==
  IF mode = "seq" THEN MaxFaults
  ELSE IF mode = "proc" THEN MaxFaultsProcess
  ELSE IF mode = "retry" THEN MaxFaultsRetry
  ELSE 0

Outcome(attempted) ==
  IF attempted /\ faults < FaultBudget THEN BOOLEAN ELSE {TRUE}

Failed(ok) == IF ok THEN 0 ELSE 1

\* the name of a file operation when it failed
Fail(name, ok) == IF ok THEN {} ELSE {name}

\* the instants datetime.now() may still return: later than every earlier one
Later == (now + 1) .. (IF mode \in {"conc", "retry"} THEN MaxTimeConc ELSE MaxTime)

\* ------------------------------------------------------------------ values
NoState == [present |-> FALSE, last_cycle |-> 0, last_timestamp |-> 0]
MachineState(c, t) == [present |-> TRUE, last_cycle |-> c, last_timestamp |-> t]
NoFile == [exists |-> FALSE, rows |-> <<>>]
File(rows) == [exists |-> TRUE, rows |-> rows]
NoEvent == [ts |-> 0, tmp |-> 0, ret |-> 0, kind |-> "none",
            persisted_state |-> NoState, sidecar_state |-> NoState]

\* row = [str(cycle_number), machine_id, timestamp.isoformat()]
Row(c, t) == <<c, MachineId, t>>

\* ------------------------------------------------------------ _CycleCounter
NewCounter == [count |-> 0, has_reset |-> FALSE, next_reset |-> 0]

\* (mutant) a reference exactly on the boundary gets that same instant
calculate_next_reset_inclusive(rh, reference) ==
  LET cycle_reset == (reference \div SlotsPerDay) * SlotsPerDay + rh
  IN  IF reference <= cycle_reset THEN cycle_reset ELSE cycle_reset + SlotsPerDay

calculate_next_reset(rh, reference) ==
  LET cycle_reset == (reference \div SlotsPerDay) * SlotsPerDay + rh
  IN  IF reference < cycle_reset THEN cycle_reset ELSE cycle_reset + SlotsPerDay

configure(rh, reference, current_count) ==
  [count |-> current_count, has_reset |-> TRUE,
   next_reset |-> calculate_next_reset(rh, reference)]

\* (mutant) the count is never reset
rollover_never(c, timestamp) == c

\* (mutant) an if in place of the while: one boundary at most is passed
rollover_once(c, timestamp) ==
  IF c.has_reset /\ timestamp >= c.next_reset
    THEN [c EXCEPT !.count = 0, !.next_reset = c.next_reset + SlotsPerDay]
    ELSE c

RECURSIVE rollover(_, _)
rollover(c, timestamp) ==
  IF c.has_reset /\ timestamp >= c.next_reset
    THEN rollover([c EXCEPT !.count = 0, !.next_reset = c.next_reset + SlotsPerDay],
                  timestamp)
    ELSE c

\* record(), up to the increment: configure when unset, then the while loop
record_rollover(rh, c, timestamp) ==
  rollover(IF c.has_reset THEN c ELSE configure(rh, timestamp, c.count), timestamp)

\* (mutant) the count before the call is not carried on
record_no_carry(rh, c, timestamp) ==
  [record_rollover(rh, c, timestamp) EXCEPT !.count = 1]

\* record(): the counter after the call; the value returned is its count
record(rh, c, timestamp) ==
  LET r == record_rollover(rh, c, timestamp)
  IN  [r EXCEPT !.count = r.count + 1]

\* ------------------------------------------------------- persisted states
\* (mutant) the entry of the machine is written with the cycle number before
save_cycle_state_off_by_one(ss, last_cycle, last_timestamp, ok) ==
  IF ok THEN [present |-> TRUE, last_cycle |-> last_cycle + 1,
              last_timestamp |-> last_timestamp]
  ELSE ss

\* save_cycle_state: the entry of the machine is replaced; _save_state_blob
\* swallows a failing write (and _record_event a failing ensure_config_dir)
save_cycle_state(ss, last_cycle, last_timestamp, ok) ==
  IF ok THEN MachineState(last_cycle, last_timestamp) ELSE ss

\* (mutant) the sidecar is not written
persist_sidecar_state_skipped(sc, last_cycle, timestamp, ok) == sc

\* _persist_sidecar_state: temporary file, then rename; a failure keeps the old file
persist_sidecar_state(sc, last_cycle, timestamp, ok) ==
  IF ok THEN MachineState(last_cycle, timestamp) ELSE sc

\* (mutant) the sidecar is never taken for the later one
SidecarNewer_never(ps, sc) == FALSE

\* both states are present and the sidecar's timestamp is strictly later
SidecarNewer(ps, sc) ==
  ps.present /\ sc.present /\ sc.last_timestamp > ps.last_timestamp

\* (mutant) the sidecar is never written back
StoreNewer_never(ps, sc) == FALSE

\* (mutant) the sidecar is written back when it is missing too
StoreNewer_or_alone(ps, sc) ==
  ps.present /\ ~(sc.present /\ sc.last_timestamp > ps.last_timestamp)

\* both states are present and the sidecar's timestamp is not later
StoreNewer(ps, sc) ==
  ps.present /\ sc.present /\ ~(sc.last_timestamp > ps.last_timestamp)

\* (mutant) the entry of state.json is preferred whenever it exists
chosen_state_store_first(ps, sc) == IF ps.present THEN ps ELSE sc

\* the state _restore_counter_state adopts
chosen_state(ps, sc) ==
  IF SidecarNewer(ps, sc) THEN sc
  ELSE IF ps.present THEN ps ELSE sc

\* (mutant) the state that was found is not put into the counter
restore_counter_state_unseeded(ps, sc, c, rh, ssOk, scOk) ==
  [stateStore |-> ps, sidecar |-> sc, counter |-> c,
   counter_initialized |-> chosen_state(ps, sc).present]

\* _restore_counter_state: what it leaves in the counter and in the two stores
restore_counter_state(ps, sc, c, rh, ssOk, scOk) ==
  LET chosen == chosen_state(ps, sc)
  IN  [stateStore |-> IF SidecarNewer(ps, sc)
                        THEN save_cycle_state(ps, sc.last_cycle, sc.last_timestamp, ssOk)
                        ELSE ps,
       sidecar |-> IF StoreNewer(ps, sc)
                     THEN persist_sidecar_state(sc, ps.last_cycle, ps.last_timestamp, scOk)
                     ELSE sc,
       counter |-> IF chosen.present
                     THEN configure(rh, chosen.last_timestamp, chosen.last_cycle)
                     ELSE c,
       counter_initialized |-> chosen.present]

\* ------------------------------------------------------------ pending rows
RECURSIVE spool_rows(_)
spool_rows(rows) ==
  IF rows = <<>> THEN <<>>
  ELSE IF Len(Head(rows)) >= 3
         THEN <<SubSeq(Head(rows), 1, 3)>> \o spool_rows(Tail(rows))
         ELSE spool_rows(Tail(rows))

\* _load_pending_rows: the pending list after the call
load_pending_rows(pend, loaded, spoolf, readOk) ==
  IF loaded \/ ~spoolf.exists \/ ~readOk THEN pend
  ELSE pend \o spool_rows(spoolf.rows)

\* (mutant) the spool file is not removed when the pending list is empty
persist_pending_rows_kept(pend, spoolf, ok) ==
  IF pend # <<>> /\ ok THEN File(pend) ELSE spoolf

\* _persist_pending_rows: the spool file after the call
persist_pending_rows(pend, spoolf, ok) ==
  IF pend = <<>>
    THEN IF spoolf.exists /\ ok THEN NoFile ELSE spoolf
    ELSE IF ok THEN File(pend) ELSE spoolf

\* ------------------------------------------------------------------ the log
\* the scan of _prepare_storage: timestamp and cycle number of the last valid row
RECURSIVE read_tail(_, _)
read_tail(rows, acc) ==
  IF rows = <<>> THEN acc
  ELSE IF Len(Head(rows)) < 3 THEN read_tail(Tail(rows), acc)
  ELSE read_tail(Tail(rows),
                 [found |-> TRUE, last_timestamp |-> Head(rows)[3],
                  last_count |-> Head(rows)[1]])

NoTail == [found |-> FALSE, last_timestamp |-> 0, last_count |-> 0]

\* _prepare_storage: ok = FALSE when it raises
prepare_storage(csvf, spoolf, c, ci, csvi, pend, pl, rh, nowv, ioOk, readOk) ==
  IF csvi
    THEN [ok |-> TRUE, csv |-> csvf, counter |-> c, counter_initialized |-> ci,
          csv_initialized |-> TRUE,
          pending_rows |-> load_pending_rows(pend, pl, spoolf, readOk),
          pending_loaded |-> TRUE]
  ELSE IF ~ioOk
    THEN [ok |-> FALSE, csv |-> csvf, counter |-> c, counter_initialized |-> ci,
          csv_initialized |-> FALSE, pending_rows |-> pend, pending_loaded |-> pl]
  ELSE IF ~csvf.exists
    THEN [ok |-> TRUE, csv |-> File(<<>>),
          counter |-> IF ci THEN c ELSE configure(rh, nowv, 0),
          counter_initialized |-> TRUE, csv_initialized |-> TRUE,
          pending_rows |-> pend, pending_loaded |-> pl]
  ELSE LET tail == read_tail(csvf.rows, NoTail)
       IN  [ok |-> TRUE, csv |-> csvf,
            counter |-> IF ci THEN c
                        ELSE configure(rh,
                                       IF tail.found THEN tail.last_timestamp ELSE nowv,
                                       tail.last_count),
            counter_initialized |-> TRUE, csv_initialized |-> TRUE,
            pending_rows |-> load_pending_rows(pend, pl, spoolf, readOk),
            pending_loaded |-> TRUE]

\* -------------------------------------------------------------------- Init
InitRecorder ==
  /\ now = 0
  /\ reset_hour \in 0 .. (SlotsPerDay - 1)
  /\ csv = NoFile
  /\ spool = NoFile
  /\ stateStore = NoState
  /\ sidecar = NoState
  /\ counter = NewCounter
  /\ running = FALSE
  /\ counter_initialized = FALSE
  /\ csv_initialized = FALSE
  /\ pending_rows = <<>>
  /\ pending_loaded = FALSE
  /\ lock = NoThread
  /\ pc = [th \in Threads |-> "idle"]
  /\ ev = [th \in Threads |-> NoEvent]
  /\ faults = 0
  /\ failed = {}
  /\ hist = <<>>
  /\ shadow = NewCounter
  /\ saved = FALSE
  /\ manual = FALSE
  /\ fresh_reset = FALSE
  /\ carried = <<>>
  /\ streak = 0
  /\ propagated = FALSE
  /\ error = "none"
  /\ events_logged = 0

InitCommon ==
  /\ InitRecorder
  /\ disk = [log |-> NoFile]
  /\ obs = [op |-> "none"]

Init == mode = "seq" /\ gpio_available = TRUE /\ InitCommon

\* one process, on a machine with RPi.GPIO or without
InitProcess == mode = "proc" /\ gpio_available \in BOOLEAN /\ InitCommon

InitConc == mode = "conc" /\ gpio_available = TRUE /\ InitCommon

AllIdle == \A th \in Threads : pc[th] = "idle"

\* one of the persisted states at least holds (cycle, ts)
OneSaved(cycle, ts) ==
  \/ stateStore = MachineState(cycle, ts)
  \/ sidecar = MachineState(cycle, ts)

\* an operation may begin: in "seq" mode only when no other one is in progress
Free(th) == mode = "conc" \/ \A o \in Threads : pc[o] = "idle"

\* ------------------------------------------------------- CycleMonitor.start
\* _prepare_storage reads the spool file when it gets as far as _load_pending_rows
LoadAttempted(ioOk) ==
  ~pending_loaded /\ spool.exists /\ (csv_initialized \/ (ioOk /\ csv.exists))

\* what _setup_gpio meets: the detection is armed, at once or at the second
\* attempt; GPIO lacks setup or add_event_detect; GPIO.setup raises RuntimeError;
\* add_event_detect raises at the first attempt and at the retry
GpioOutcomes == {"armed", "rearmed", "missing_attributes", "setup_fails", "detect_fails"}

\* _setup_gpio: start sets self._running when it returns, and otherwise raises
\* what _setup_gpio raised
setup_gpio(outcome) ==
  [running |-> outcome \in {"armed", "rearmed"},
   error |-> IF outcome = "missing_attributes" THEN "GPIOUnavailableError"
             ELSE IF outcome \in {"setup_fails", "detect_fails"} THEN "RuntimeError"
             ELSE "none"]

\* (mutant) start does not look at self._running
AlreadyRunning_never == FALSE

\* if self._running: return
AlreadyRunning == running

\* start up to _setup_gpio: the lock is taken, the state restored, the storage
\* prepared; nothing of it when the monitor is running already
start(th) ==
  /\ th = "ui" /\ pc[th] = "idle" /\ Free(th)
  /\ IF ~gpio_available
       THEN /\ error' = "GPIOUnavailableError"
            /\ UNCHANGED <<fsVars, instVars, lock, pc, ev, faults, failed, fresh_reset,
                           streak>>
       ELSE
     /\ lock = NoThread
     /\ error' = "none"
     /\ IF AlreadyRunning
       THEN /\ lock' = th
            /\ pc' = [pc EXCEPT ![th] = "start_noop"]
            /\ ev' = [ev EXCEPT ![th] = [NoEvent EXCEPT !.kind = "start"]]
            /\ UNCHANGED <<fsVars, instVars, faults, failed, fresh_reset, streak>>
       ELSE \E ssOk \in Outcome(SidecarNewer(stateStore, sidecar)),
               scOk \in Outcome(StoreNewer(stateStore, sidecar)),
               ioOk \in Outcome(~csv_initialized) :
            \E readOk \in Outcome(LoadAttempted(ioOk)) :
              LET r == restore_counter_state(stateStore, sidecar, counter, reset_hour,
                                             ssOk, scOk)
                  p == prepare_storage(csv, spool, r.counter, r.counter_initialized,
                                       csv_initialized, pending_rows, pending_loaded,
                                       reset_hour, now, ioOk, readOk)
              IN  /\ stateStore' = r.stateStore
                  /\ sidecar' = r.sidecar
                  /\ csv' = p.csv
                  /\ counter' = p.counter
                  /\ counter_initialized' = p.counter_initialized
                  /\ csv_initialized' = p.csv_initialized
                  /\ pending_rows' = p.pending_rows
                  /\ pending_loaded' = p.pending_loaded
                  /\ faults' = faults + Failed(ssOk) + Failed(scOk) + Failed(ioOk)
                                       + Failed(readOk)
                  /\ faults' <= FaultBudget
                  /\ failed' = Fail("state_save", ssOk) \cup Fail("sidecar_save", scOk)
                                 \cup Fail("storage", ioOk) \cup Fail("spool_read", readOk)
                  /\ lock' = th
                  /\ pc' = [pc EXCEPT ![th] = IF p.ok THEN "setup_gpio" ELSE "start_raised"]
                  /\ ev' = [ev EXCEPT ![th] = [NoEvent EXCEPT !.kind = "start",
                                                              !.persisted_state = stateStore,
                                                              !.sidecar_state = sidecar]]
                  /\ fresh_reset' = FALSE
                  /\ streak' = 0
                  /\ UNCHANGED <<spool, running>>
  /\ propagated' = FALSE
  /\ UNCHANGED <<envVars, events_logged, now, reset_hour, hist, shadow, saved, manual, carried>>

\* _setup_gpio and self._running = True, or the exception of _prepare_storage or of
\* _setup_gpio leaving the with block, or the return of a start that found the
\* monitor running; the lock is released
start_finish(th) ==
  /\ pc[th] \in {"setup_gpio", "start_raised", "start_noop"} /\ lock = th
  /\ \E outcome \in GpioOutcomes :
       /\ running' = IF pc[th] = "setup_gpio" THEN setup_gpio(outcome).running
                      ELSE running
       /\ error' = IF pc[th] = "setup_gpio" THEN setup_gpio(outcome).error
                    ELSE IF pc[th] = "start_raised" THEN "OSError"
                    ELSE "none"
  /\ lock' = NoThread
  /\ pc' = [pc EXCEPT ![th] = "idle"]
  /\ ev' = [ev EXCEPT ![th] = NoEvent]
  /\ failed' = {}
  /\ UNCHANGED <<envVars, events_logged, now, reset_hour, fsVars, counter, counter_initialized,
                 csv_initialized, pending_rows, pending_loaded, faults, hist, shadow,
                 saved, manual, fresh_reset, carried, streak, propagated>>

\* -------------------------------------------------------- CycleMonitor.stop
\* (mutant) stop leaves self._running as it is
running_after_stop_kept(r) == r

\* self._running = False, after the edge detection is removed and the pin
\* cleaned up
running_after_stop(r) == FALSE

\* stop up to its test of self._running: the lock is taken; without RPi.GPIO it
\* returns at once
stop(th) ==
  /\ th = "ui" /\ pc[th] = "idle" /\ Free(th)
  /\ IF ~gpio_available
       THEN UNCHANGED <<lock, pc, ev>>
       ELSE /\ lock = NoThread
            /\ lock' = th
            /\ pc' = [pc EXCEPT ![th] = "stop"]
            /\ ev' = [ev EXCEPT ![th] = [NoEvent EXCEPT !.kind = "stop"]]
  /\ error' = "none"
  /\ UNCHANGED <<envVars, events_logged, now, reset_hour, fsVars, instVars, faults, failed, hist,
                 shadow, saved, manual, fresh_reset, carried, streak, propagated>>

\* if not self._running: return; else the detection is removed and
\* self._running = False; the lock is released
stop_finish(th) ==
  /\ pc[th] = "stop" /\ lock = th
  /\ running' = IF running THEN running_after_stop(running) ELSE running
  /\ lock' = NoThread
  /\ pc' = [pc EXCEPT ![th] = "idle"]
  /\ ev' = [ev EXCEPT ![th] = [NoEvent EXCEPT !.kind = "stopped"]]
  /\ UNCHANGED <<envVars, events_logged, now, reset_hour, fsVars, counter, counter_initialized,
                 csv_initialized, pending_rows, pending_loaded, faults, failed, hist,
                 hvars>>

\* ----------------------------------------- CycleMonitor.reset_cycle_counter
\* the reference is the instant of the call or one given by the caller; the model
\* takes it from the latest instant read so far and the later ones
reset_configure(th) ==
  /\ th = "ui" /\ pc[th] = "idle" /\ Free(th) /\ lock = NoThread
  /\ \E t \in {now} \cup Later :
       /\ now' = t
       /\ counter' = configure(reset_hour, t, 0)
       /\ ev' = [ev EXCEPT ![th] = [NoEvent EXCEPT !.ts = t, !.kind = "reset"]]
  /\ counter_initialized' = TRUE
  /\ pc' = [pc EXCEPT ![th] = "reset_save_state"]
  /\ manual' = TRUE
  /\ failed' = {}
  /\ streak' = 0
  /\ propagated' = FALSE
  /\ error' = "none"
  /\ UNCHANGED <<envVars, events_logged, reset_hour, fsVars, running, csv_initialized, pending_rows,
                 pending_loaded, lock, faults, hist, shadow, saved, fresh_reset, carried>>

reset_save_state(th) ==
  /\ pc[th] = "reset_save_state"
  /\ \E ok \in Outcome(TRUE) :
       /\ stateStore' = save_cycle_state(stateStore, 0, ev[th].ts, ok)
       /\ faults' = faults + Failed(ok)
       /\ failed' = failed \cup Fail("state_save", ok)
  /\ pc' = [pc EXCEPT ![th] = "reset_save_sidecar"]
  /\ UNCHANGED <<envVars, events_logged, now, reset_hour, csv, spool, sidecar, instVars, lock, ev,
                 hist, hvars>>

reset_save_sidecar(th) ==
  /\ pc[th] = "reset_save_sidecar"
  /\ \E ok \in Outcome(TRUE) :
       /\ sidecar' = persist_sidecar_state(sidecar, 0, ev[th].ts, ok)
       /\ faults' = faults + Failed(ok)
       /\ failed' = failed \cup Fail("sidecar_save", ok)
  /\ pc' = [pc EXCEPT ![th] = "reset_done"]
  /\ UNCHANGED <<envVars, events_logged, now, reset_hour, csv, spool, stateStore, instVars, lock, ev,
                 hist, hvars>>

reset_return(th) ==
  /\ pc[th] = "reset_done"
  /\ pc' = [pc EXCEPT ![th] = "idle"]
  /\ ev' = [ev EXCEPT ![th] = NoEvent]
  /\ failed' = {}
  /\ shadow' = counter
  /\ saved' = OneSaved(0, ev[th].ts)
  /\ fresh_reset' = TRUE
  /\ UNCHANGED <<envVars, events_logged, now, reset_hour, fsVars, instVars, lock, faults, hist, manual,
                 carried, streak, propagated, error>>

\* ------------------------------------- _handle_event / simulate_event entry
\* the GPIO callback: fires only while edge detection is armed
handle_event(th) ==
  /\ th = "hw" /\ pc[th] = "idle" /\ Free(th) /\ running
  /\ \E t \in Later :
       /\ now' = t
       /\ ev' = [ev EXCEPT ![th] = [NoEvent EXCEPT !.ts = t, !.kind = "hw"]]
  /\ pc' = [pc EXCEPT ![th] = "prepare"]
  /\ failed' = {}
  /\ propagated' = FALSE
  /\ error' = "none"
  /\ UNCHANGED <<envVars, events_logged, reset_hour, fsVars, instVars, lock, faults, hist, shadow, saved,
                 manual, fresh_reset, carried, streak>>

\* simulate_event up to its call of _record_event
simulate_event(th) ==
  /\ th = "ui" /\ pc[th] = "idle" /\ Free(th) /\ lock = NoThread
  /\ \E t \in Later :
       /\ now' = t
       /\ IF counter_initialized
            THEN /\ ev' = [ev EXCEPT ![th] = [NoEvent EXCEPT !.ts = t, !.kind = "sim"]]
                 /\ failed' = {}
                 /\ UNCHANGED <<stateStore, sidecar, counter, counter_initialized, faults>>
            ELSE \E ssOk \in Outcome(SidecarNewer(stateStore, sidecar)),
                    scOk \in Outcome(StoreNewer(stateStore, sidecar)) :
                   LET r == restore_counter_state(stateStore, sidecar, counter,
                                                  reset_hour, ssOk, scOk)
                   IN  /\ stateStore' = r.stateStore
                       /\ sidecar' = r.sidecar
                       /\ counter' = r.counter
                       /\ counter_initialized' = r.counter_initialized
                       /\ faults' = faults + Failed(ssOk) + Failed(scOk)
                       /\ failed' = Fail("state_save", ssOk) \cup Fail("sidecar_save", scOk)
                       /\ ev' = [ev EXCEPT ![th] = [NoEvent EXCEPT
                                                      !.ts = t, !.kind = "sim",
                                                      !.persisted_state = stateStore,
                                                      !.sidecar_state = sidecar]]
  /\ pc' = [pc EXCEPT ![th] = "prepare"]
  /\ propagated' = FALSE
  /\ error' = "none"
  /\ UNCHANGED <<envVars, events_logged, reset_hour, csv, spool, running, csv_initialized, pending_rows,
                 pending_loaded, lock, hist, shadow, saved, manual, fresh_reset, carried,
                 streak>>

\* ------------------------------------------------------------ _record_event
\* self._prepare_storage(), not under the lock; None is returned when it raises
record_prepare(th) ==
  /\ pc[th] = "prepare"
  /\ \E ioOk \in Outcome(~csv_initialized) :
     \E readOk \in Outcome(LoadAttempted(ioOk)) :
       LET p == prepare_storage(csv, spool, counter, counter_initialized,
                                csv_initialized, pending_rows, pending_loaded,
                                reset_hour, now, ioOk, readOk)
       IN  /\ csv' = p.csv
           /\ counter' = p.counter
           /\ counter_initialized' = p.counter_initialized
           /\ csv_initialized' = p.csv_initialized
           /\ pending_rows' = p.pending_rows
           /\ pending_loaded' = p.pending_loaded
           /\ pc' = [pc EXCEPT ![th] = IF p.ok THEN "record" ELSE "ret"]
           /\ faults' = faults + Failed(ioOk) + Failed(readOk)
           /\ faults' <= FaultBudget
           /\ failed' = failed \cup Fail("storage", ioOk) \cup Fail("spool_read", readOk)
  /\ UNCHANGED <<envVars, events_logged, now, reset_hour, spool, stateStore, sidecar, running, lock, ev,
                 hist, hvars>>

\* self._counter.record(timestamp), not under the lock: the reset loop ...
record_reset(th) ==
  /\ pc[th] = "record"
  /\ counter' = record_rollover(reset_hour, counter, ev[th].ts)
  /\ pc' = [pc EXCEPT ![th] = "inc_load"]
  /\ UNCHANGED <<envVars, events_logged, now, reset_hour, fsVars, running, counter_initialized,
                 csv_initialized, pending_rows, pending_loaded, lock, ev, faults, failed,
                 hist, hvars>>

\* the whole of self._counter.record(timestamp) in one step
record_count(th) ==
  /\ pc[th] = "record"
  /\ LET c == record_rollover(reset_hour, counter, ev[th].ts)
     IN  /\ counter' = [c EXCEPT !.count = c.count + 1]
         /\ ev' = [ev EXCEPT ![th].ret = c.count + 1]
  /\ pc' = [pc EXCEPT ![th] = "append"]
  /\ UNCHANGED <<envVars, events_logged, now, reset_hour, fsVars, running, counter_initialized,
                 csv_initialized, pending_rows, pending_loaded, lock, faults, failed,
                 hist, hvars>>

\* ... then self._count += 1 reads self._count ...
record_load(th) ==
  /\ pc[th] = "inc_load"
  /\ ev' = [ev EXCEPT ![th].tmp = counter.count]
  /\ pc' = [pc EXCEPT ![th] = "inc_store"]
  /\ UNCHANGED <<envVars, events_logged, now, reset_hour, fsVars, instVars, lock, faults, failed, hist,
                 hvars>>

\* ... writes it back incremented ...
record_store(th) ==
  /\ pc[th] = "inc_store"
  /\ counter' = [counter EXCEPT !.count = ev[th].tmp + 1]
  /\ pc' = [pc EXCEPT ![th] = "inc_ret"]
  /\ UNCHANGED <<envVars, events_logged, now, reset_hour, fsVars, running, counter_initialized,
                 csv_initialized, pending_rows, pending_loaded, lock, ev, faults, failed,
                 hist, hvars>>

\* ... and return self._count reads it again
record_return(th) ==
  /\ pc[th] = "inc_ret"
  /\ ev' = [ev EXCEPT ![th].ret = counter.count]
  /\ pc' = [pc EXCEPT ![th] = "append"]
  /\ UNCHANGED <<envVars, events_logged, now, reset_hour, fsVars, instVars, lock, faults, failed, hist,
                 hvars>>

\* ------------------------------------------------------- _append_with_retry
\* (mutant) the new row is put ahead of the pending rows
rows_to_write_new_first(pend, new_row) == <<new_row>> \o pend

\* (mutant) the new row is put twice
rows_to_write_twice(pend, new_row) == pend \o <<new_row, new_row>>

\* rows_to_write: the pending rows, then the new row
rows_to_write(pend, new_row) == pend \o <<new_row>>

\* the row _record_event builds
NewRow(th) == Row(ev[th].ret, ev[th].ts)

\* the lock is taken, the pending rows are loaded, the rows are written to the log
append_write(th) ==
  /\ pc[th] = "append" /\ lock = NoThread
  /\ \E readOk \in Outcome(~pending_loaded /\ spool.exists) :
       LET pend == load_pending_rows(pending_rows, pending_loaded, spool, readOk)
       IN  /\ pending_rows' = pend
           /\ faults' = faults + Failed(readOk)
           /\ failed' = failed \cup Fail("spool_read", readOk)
           /\ csv' = File(csv.rows \o rows_to_write(pend, NewRow(th)))
  /\ pending_loaded' = TRUE
  /\ lock' = th
  /\ hist' = Append(hist, NewRow(th))
  /\ pc' = [pc EXCEPT ![th] = "append_ok"]
  /\ UNCHANGED <<envVars, events_logged, now, reset_hour, spool, stateStore, sidecar, counter, running,
                 counter_initialized, csv_initialized, ev, hvars>>

\* (mutant) the rows written stay in the pending list
pending_after_write_kept(pend) == pend

\* self._pending_rows.clear()
pending_after_write(pend) == <<>>

\* after the write: the pending list is cleared and the spool file removed
append_clear(th) ==
  /\ pc[th] = "append_ok" /\ lock = th
  /\ pending_rows' = pending_after_write(pending_rows)
  /\ \E ok \in Outcome(spool.exists) :
       /\ spool' = persist_pending_rows(pending_after_write(pending_rows), spool, ok)
       /\ faults' = faults + Failed(ok)
       /\ failed' = failed \cup Fail("spool_write", ok)
  /\ lock' = NoThread
  /\ pc' = [pc EXCEPT ![th] = "save_state"]
  /\ UNCHANGED <<envVars, events_logged, now, reset_hour, csv, stateStore, sidecar, counter, running,
                 counter_initialized, csv_initialized, pending_loaded, ev, hist, hvars>>

\* the write raises OSError: the rows are kept pending and written to the spool
append_fail(th) ==
  /\ pc[th] = "append" /\ lock = NoThread /\ faults < FaultBudget
  /\ \E readOk \in Outcome(~pending_loaded /\ spool.exists), ok \in BOOLEAN :
       LET pend == load_pending_rows(pending_rows, pending_loaded, spool, readOk)
           rows == rows_to_write(pend, NewRow(th))
       IN  /\ pending_rows' = rows
           /\ spool' = persist_pending_rows(rows, spool, ok)
           /\ faults' = faults + 1 + Failed(readOk) + Failed(ok)
           /\ faults' <= FaultBudget
           /\ failed' = failed \cup {"append"} \cup Fail("spool_read", readOk)
                          \cup Fail("spool_write", ok)
  /\ pending_loaded' = TRUE
  /\ hist' = Append(hist, NewRow(th))
  /\ pc' = [pc EXCEPT ![th] = "save_state"]
  /\ streak' = streak + 1
  /\ UNCHANGED <<envVars, events_logged, now, reset_hour, csv, stateStore, sidecar, counter, running,
                 counter_initialized, csv_initialized, lock, ev, shadow, saved, manual,
                 fresh_reset, carried, propagated, error>>

\* save_cycle_state(machine_id, cycle_number, timestamp), best effort
record_save_state(th) ==
  /\ pc[th] = "save_state"
  /\ \E ok \in Outcome(TRUE) :
       /\ stateStore' = save_cycle_state(stateStore, ev[th].ret, ev[th].ts, ok)
       /\ faults' = faults + Failed(ok)
       /\ failed' = failed \cup Fail("state_save", ok)
  /\ pc' = [pc EXCEPT ![th] = "save_sidecar"]
  /\ UNCHANGED <<envVars, events_logged, now, reset_hour, csv, spool, sidecar, instVars, lock, ev,
                 hist, hvars>>

\* self._persist_sidecar_state(cycle_number, timestamp); return cycle_number
record_save_sidecar(th) ==
  /\ pc[th] = "save_sidecar"
  /\ \E ok \in Outcome(TRUE) :
       /\ sidecar' = persist_sidecar_state(sidecar, ev[th].ret, ev[th].ts, ok)
       /\ faults' = faults + Failed(ok)
       /\ failed' = failed \cup Fail("sidecar_save", ok)
  /\ pc' = [pc EXCEPT ![th] = "ret"]
  /\ UNCHANGED <<envVars, events_logged, now, reset_hour, csv, spool, stateStore, instVars, lock, ev,
                 hist, hvars>>

\* (mutant) the lock is still held when the callback is invoked
lock_at_callback_held(th) == th

\* the holder of the lock when the caller of _record_event invokes the callback:
\* the with block of the statistics has been left
lock_at_callback(th) == NoThread

\* the statistics are followed in the mode "retry", and left out of the state
\* in the others
StatsFollowed == mode = "retry"

\* _handle_event returns at once when _record_event returned None
ReturnsEarly(th) == ev[th].kind = "hw" /\ ev[th].ret = 0

\* _record_event has returned (ret = 0 stands for None); _handle_event returns
\* when it is None, simulate_event does not look at it; the statistics are
\* updated under the lock and the caller goes on to the callback
event_return(th) ==
  /\ pc[th] = "ret"
  /\ IF ReturnsEarly(th)
       THEN /\ pc' = [pc EXCEPT ![th] = "idle"]
            /\ ev' = [ev EXCEPT ![th] = NoEvent]
            /\ UNCHANGED lock
       ELSE /\ lock = NoThread
            /\ lock' = lock_at_callback(th)
            /\ pc' = [pc EXCEPT ![th] = "callback"]
            /\ UNCHANGED ev
  /\ failed' = {}
  /\ fresh_reset' = FALSE
  /\ IF ev[th].ret = 0
       THEN UNCHANGED <<shadow, saved>>
       ELSE /\ shadow' = counter
            /\ saved' = OneSaved(ev[th].ret, ev[th].ts)
  /\ streak' = IF ev[th].ret # 0 /\ "append" \notin failed THEN 0 ELSE streak
  /\ events_logged' = IF ReturnsEarly(th) \/ ~StatsFollowed THEN events_logged
                       ELSE events_logged + 1
  /\ UNCHANGED <<envVars, now, reset_hour, fsVars, instVars, faults, hist, manual,
                 carried, propagated, error>>

\* what the registered callback does: it returns, it raises, or it asks is_running,
\* which takes the lock; a callback that blocks takes no step
CallbackBodies == {"returns", "raises", "is_running"}

\* self._callback(timestamp): _handle_event catches its exception, simulate_event
\* does not
callback(th) ==
  /\ pc[th] = "callback"
  /\ \E body \in CallbackBodies :
       /\ body = "is_running" => lock = NoThread
       /\ propagated' = (body = "raises" /\ ev[th].kind = "sim")
  /\ pc' = [pc EXCEPT ![th] = "idle"]
  /\ ev' = [ev EXCEPT ![th] = NoEvent]
  /\ UNCHANGED <<envVars, events_logged, now, reset_hour, fsVars, instVars, lock, faults, failed, hist,
                 shadow, saved, manual, fresh_reset, carried, streak, error>>

\* ------------------------------------------------------------------- crash
\* the process dies at any point and a new CycleMonitor is constructed for the
\* same machine id and log path: the files stay, everything in memory is new
crash ==
  /\ counter' = NewCounter
  /\ running' = FALSE
  /\ counter_initialized' = FALSE
  /\ csv_initialized' = FALSE
  /\ pending_rows' = <<>>
  /\ pending_loaded' = FALSE
  /\ lock' = NoThread
  /\ pc' = [th \in Threads |-> "idle"]
  /\ ev' = [th \in Threads |-> NoEvent]
  /\ hist' = <<>>
  /\ failed' = {}
  /\ saved' = (saved /\ AllIdle)
  /\ fresh_reset' = FALSE
  /\ carried' = IF spool = File(pending_rows) THEN pending_rows ELSE <<>>
  /\ streak' = 0
  /\ propagated' = FALSE
  /\ error' = "none"
  /\ events_logged' = 0
  /\ UNCHANGED <<shadow, manual>>
  /\ UNCHANGED <<envVars, now, reset_hour, fsVars, faults>>

\* ---------------------------------------------------------- specifications
\* the operations that are one step each, whoever runs them
Common(th) ==
  \/ start(th)
  \/ start_finish(th)
  \/ stop(th)
  \/ stop_finish(th)
  \/ reset_configure(th)
  \/ reset_save_state(th)
  \/ reset_save_sidecar(th)
  \/ reset_return(th)
  \/ handle_event(th)
  \/ simulate_event(th)
  \/ record_prepare(th)
  \/ append_write(th)
  \/ append_clear(th)
  \/ record_save_state(th)
  \/ record_save_sidecar(th)
  \/ event_return(th)
  \/ callback(th)

\* one recorder, operations one after the other, crashes at any step
Next ==
  \/ \E th \in Threads : Common(th) \/ record_count(th) \/ append_fail(th)
  \/ crash

Spec == Init /\ [][Next]_vars

\* the same, the process being restarted only between two operations
restart == AllIdle /\ crash

NextRestart ==
  \/ \E th \in Threads : Common(th) \/ record_count(th) \/ append_fail(th)
  \/ restart

SpecRestart == Init /\ [][NextRestart]_vars

\* one recorder in one process, operations one after the other
NextProcess ==
  \E th \in Threads : Common(th) \/ record_count(th) \/ append_fail(th)

SpecProcess == InitProcess /\ [][NextProcess]_vars

\* the same, every operation that was begun runs to its end: the steps of an
\* operation are the statements of one call, which the interpreter goes on
\* executing
InitRetry == mode = "retry" /\ gpio_available = TRUE /\ InitCommon

Finish(th) ==
  \/ start_finish(th)
  \/ stop_finish(th)
  \/ reset_save_state(th)
  \/ reset_save_sidecar(th)
  \/ reset_return(th)
  \/ record_prepare(th)
  \/ record_count(th)
  \/ append_write(th)
  \/ append_fail(th)
  \/ append_clear(th)
  \/ record_save_state(th)
  \/ record_save_sidecar(th)
  \/ event_return(th)
  \/ callback(th)

SpecRetry ==
  /\ InitRetry
  /\ [][NextProcess]_vars
  /\ \A th \in Threads : WF_vars(Finish(th))

\* one recorder, the GPIO callback thread and the user-interface thread interleaved
\* statement by statement
NextConc ==
  \E th \in Threads :
    \/ Common(th)
    \/ record_reset(th)
    \/ record_load(th)
    \/ record_store(th)
    \/ record_return(th)

SpecConc == InitConc /\ [][NextConc]_vars

\* the two threads recording events (start, the GPIO callback and the manual test
\* event), the call of counter.record taken as one step, under a fair scheduler:
\* every step other than the body of the callback is taken in the end, and a
\* thread that waits for the lock gets it when the lock is released again and
\* again; nothing makes a callback return
NextFair ==
  \E th \in Threads :
    \/ start(th)
    \/ start_finish(th)
    \/ handle_event(th)
    \/ simulate_event(th)
    \/ record_prepare(th)
    \/ record_count(th)
    \/ append_write(th)
    \/ append_clear(th)
    \/ record_save_state(th)
    \/ record_save_sidecar(th)
    \/ event_return(th)
    \/ callback(th)

Progress(th) ==
  \/ start_finish(th)
  \/ record_prepare(th)
  \/ record_count(th)
  \/ append_clear(th)
  \/ record_save_state(th)
  \/ record_save_sidecar(th)

Acquire(th) == append_write(th) \/ event_return(th)

SpecFair ==
  /\ InitConc
  /\ [][NextFair]_vars
  /\ \A th \in Threads : WF_vars(Progress(th)) /\ SF_vars(Acquire(th))

\* ------------------------------- the service, and the test events of the GUI
InitShared == mode = "shared" /\ gpio_available = TRUE /\ InitCommon

\* gui.py, _log_test_event, in the process of the GUI: a CycleMonitor is
\* constructed for the same machine id and the same log, and its
\* simulate_event runs from _restore_counter_state to _persist_sidecar_state
\* between two steps of the service; the recorder is dropped afterwards
gui_log_test_event ==
  /\ \E t \in Later :
       LET r == restore_counter_state(stateStore, sidecar, NewCounter, reset_hour,
                                      TRUE, TRUE)
           p == prepare_storage(csv, spool, r.counter, r.counter_initialized, FALSE,
                                <<>>, FALSE, reset_hour, t, TRUE, TRUE)
           c == record(reset_hour, p.counter, t)
       IN  /\ now' = t
           /\ csv' = File(p.csv.rows \o rows_to_write(p.pending_rows, Row(c.count, t)))
           /\ spool' = persist_pending_rows(<<>>, spool, TRUE)
           /\ stateStore' = save_cycle_state(r.stateStore, c.count, t, TRUE)
           /\ sidecar' = persist_sidecar_state(r.sidecar, c.count, t, TRUE)
  /\ UNCHANGED <<envVars, events_logged, reset_hour, instVars, lock, pc, ev, faults, failed, hist, hvars>>

NextShared ==
  \/ \E th \in Threads :
       \/ start(th)
       \/ start_finish(th)
       \/ handle_event(th)
       \/ record_prepare(th)
       \/ record_count(th)
       \/ append_write(th)
       \/ append_clear(th)
       \/ record_save_state(th)
       \/ record_save_sidecar(th)
       \/ event_return(th)
       \/ callback(th)
  \/ gui_log_test_event

SpecShared == InitShared /\ [][NextShared]_vars

\* ------------------------------------------------ a _CycleCounter on its own
\* the timestamps and reference instants handed to the counter, in any order
Stamps == 0 .. MaxStamp

InitCounter == mode = "counter" /\ gpio_available = TRUE /\ InitCommon

\* counter.configure(reference, current_count); ev keeps the arguments of the
\* latest configure under "ui" and those of the latest record under "hw", hist
\* the rows (count returned, timestamp) of the records since the latest configure
counter_configure ==
  /\ \E reference \in Stamps, current_count \in 0 .. MaxCount :
       /\ counter' = configure(reset_hour, reference, current_count)
       /\ ev' = [ev EXCEPT !["ui"] = [NoEvent EXCEPT !.ts = reference,
                                                      !.tmp = current_count,
                                                      !.kind = "configure"],
                           !["hw"] = NoEvent]
  /\ hist' = <<>>
  /\ shadow' = counter
  /\ UNCHANGED <<envVars, events_logged, now, reset_hour, fsVars, running, counter_initialized,
                 csv_initialized, pending_rows, pending_loaded, lock, pc, faults,
                 failed, saved, manual, fresh_reset, carried, streak, propagated, error>>

\* counter.record(timestamp)
counter_record ==
  /\ Len(hist) < MaxCalls
  /\ \E timestamp \in Stamps :
       LET c == record(reset_hour, counter, timestamp)
       IN  /\ counter' = c
           /\ ev' = [ev EXCEPT !["hw"] = [NoEvent EXCEPT !.ts = timestamp,
                                                          !.ret = c.count,
                                                          !.kind = "record"]]
           /\ hist' = Append(hist, Row(c.count, timestamp))
  /\ shadow' = counter
  /\ UNCHANGED <<envVars, events_logged, now, reset_hour, fsVars, running, counter_initialized,
                 csv_initialized, pending_rows, pending_loaded, lock, pc, faults,
                 failed, saved, manual, fresh_reset, carried, streak, propagated, error>>

NextCounter == counter_configure \/ counter_record

SpecCounter == InitCounter /\ [][NextCounter]_vars


\* ------------------------------------------------- the log file as text
\* the fields of a row as csv.reader returns them: the text of an integer, of
\* a timestamp, or another word
Word(s) == [tag |-> "word", n |-> 0, s |-> s]

\* str(cycle_number)
str(n) == [tag |-> "int", n |-> n, s |-> ""]

\* timestamp.isoformat()
isoformat(t) == [tag |-> "iso", n |-> t, s |-> ""]

\* a text datetime.fromisoformat reads and isoformat does not write (a space
\* in place of the T)
AltIso(t) == [tag |-> "isoalt", n |-> t, s |-> ""]

\* int(text) and datetime.fromisoformat(text): ValueError unless the text is one
IsInt(x) == x.tag = "int"
int(x) == x.n
IsIso(x) == x.tag \in {"iso", "isoalt"}
fromisoformat(x) == x.n

\* self._csv_header, and the header of the files written before the cycle
\* numbers were added
csv_header == <<Word("cycle_number"), Word("machine_id"), Word("timestamp")>>
legacy_header == <<Word("machine_id"), Word("timestamp")>>

\* _CycleCounter(): reset_hour = 3, on the scale of the model's day
DefaultResetHour == (3 * SlotsPerDay) \div 24

NoSeed == [present |-> FALSE, last_timestamp |-> 0, last_count |-> 0]
Seed(t, c) == [present |-> TRUE, last_timestamp |-> t, last_count |-> c]

\* (mutant) the rows are replayed with the reset hour of the configuration
migration_reset_hour_configured(rh) == rh

\* the reset hour of the counter the rows are replayed through
migration_reset_hour(rh) == DefaultResetHour

\* _ensure_migrated, the loop over data_rows: rows of fewer than 2 fields or
\* with a last field that is no timestamp are dropped, the others get the
\* number counter.record returns
RECURSIVE migrate_rows(_, _, _)
migrate_rows(data_rows, c, rh) ==
  IF data_rows = <<>> THEN <<>>
  ELSE LET row == Head(data_rows)
       IN  IF Len(row) < 2 \/ ~IsIso(row[Len(row)])
             THEN migrate_rows(Tail(data_rows), c, rh)
             ELSE LET timestamp == fromisoformat(row[Len(row)])
                      c2 == record(migration_reset_hour(rh), c, timestamp)
                  IN  <<<<str(c2.count), row[1], isoformat(timestamp)>>>>
                        \o migrate_rows(Tail(data_rows), c2, rh)

\* (mutant) a file with the current header is rewritten too, without the rows
\* that do not parse
HeaderIsCurrent_never(header) == FALSE

\* header == self._csv_header
HeaderIsCurrent(header) == header = csv_header

\* _ensure_migrated: the lines of the file after it, and the seed it returns
ensure_migrated(lines, rh, nowv) ==
  IF lines = <<>>
    THEN [lines |-> <<csv_header>>, seed |-> Seed(nowv, 0)]
  ELSE IF HeaderIsCurrent(Head(lines))
    THEN [lines |-> lines, seed |-> NoSeed]
  ELSE LET m == migrate_rows(Tail(lines), NewCounter, rh)
       IN  [lines |-> <<csv_header>> \o m,
            seed |-> IF m # <<>>
                       THEN Seed(fromisoformat(m[Len(m)][3]), int(m[Len(m)][1]))
                       ELSE Seed(nowv, 0)]

\* (mutant) a row whose timestamp does not parse ends the scan
RECURSIVE scan_tail_stops(_, _)
scan_tail_stops(rows, acc) ==
  IF rows = <<>> THEN acc
  ELSE LET row == Head(rows)
       IN  IF Len(row) < 3 THEN scan_tail_stops(Tail(rows), acc)
           ELSE IF ~IsIso(row[3]) THEN NoTail
           ELSE scan_tail_stops(Tail(rows),
                                [found |-> TRUE,
                                 last_timestamp |-> fromisoformat(row[3]),
                                 last_count |-> IF IsInt(row[1]) THEN int(row[1]) ELSE 0])

\* _prepare_storage, the loop over the rows after the header: the timestamp and
\* the cycle number of the last row of 3 fields whose timestamp parses
RECURSIVE scan_tail(_, _)
scan_tail(rows, acc) ==
  IF rows = <<>> THEN acc
  ELSE LET row == Head(rows)
       IN  IF Len(row) < 3 \/ ~IsIso(row[3])
             THEN scan_tail(Tail(rows), acc)
             ELSE scan_tail(Tail(rows),
                            [found |-> TRUE,
                             last_timestamp |-> fromisoformat(row[3]),
                             last_count |-> IF IsInt(row[1]) THEN int(row[1]) ELSE 0])

\* if seed and not self._counter_initialized
SeedApplies(ci) == ~ci

\* (mutant) the counter is configured at the present instant
tail_reference_now(tail, nowv) == nowv

\* reference = last_timestamp or datetime.now(timezone.utc).astimezone()
tail_reference(tail, nowv) == IF tail.found THEN tail.last_timestamp ELSE nowv

\* _prepare_storage of a recorder whose self._csv_initialized is not set, no
\* file operation failing: the file, the counter, the seed and the tail it read
prepare_storage_file(file, c, ci, rh, nowv) ==
  IF ~file.exists
    THEN [file |-> File(<<csv_header>>),
          counter |-> IF ci THEN c ELSE configure(rh, nowv, 0),
          seed |-> NoSeed, tail |-> NoTail]
  ELSE LET m == ensure_migrated(file.rows, rh, nowv)
           seeded == m.seed.present /\ SeedApplies(ci)
           c1 == IF seeded THEN configure(rh, m.seed.last_timestamp, m.seed.last_count)
                 ELSE c
           ci1 == ci \/ seeded
       IN  IF Head(m.lines) # csv_header
             THEN [file |-> File(<<csv_header>>),
                   counter |-> IF ci1 THEN c1 ELSE configure(rh, nowv, 0),
                   seed |-> m.seed, tail |-> NoTail]
             ELSE LET tail == scan_tail(Tail(m.lines), NoTail)
                  IN  [file |-> File(m.lines),
                       counter |-> IF ci1 THEN c1
                                   ELSE configure(rh, tail_reference(tail, nowv),
                                                  tail.last_count),
                       seed |-> m.seed, tail |-> tail]

\* the variables the specifications of the files as text leave alone
restVars == <<gpio_available, events_logged, csv, spool, stateStore, sidecar, running, pending_rows,
              pending_loaded, lock, pc, ev, faults, failed, hist, hvars>>

\* the rows a log file may hold at the start: rows of the 2-column files, rows
\* of the 3-column files, rows cut short and rows whose fields do not parse
MachineText == Word(MachineId)
LegacyRows ==
  {<<MachineText, isoformat(t)>> : t \in {1, MaxTime}}
    \cup {<<MachineText, AltIso(1)>>, <<MachineText, Word("garbage")>>, <<MachineText>>}
CurrentRows ==
  {<<str(MaxCount), MachineText, isoformat(t)>> : t \in {1, MaxTime}}
    \cup {<<str(1), MachineText, Word("garbage")>>,
          <<Word("garbage"), MachineText, isoformat(1)>>,
          <<str(1), MachineText>>}
corrupted_header == <<Word("cycle"), Word("machine"), Word("time")>>

RowsOf(header) == IF header = legacy_header THEN LegacyRows ELSE CurrentRows

LogFiles ==
  {NoFile, File(<<>>)}
    \cup UNION {UNION {{File(<<header>> \o [i \in 1 .. n |-> f[i]]) :
                          f \in [1 .. n -> RowsOf(header)]} : n \in 0 .. MaxRows} :
                header \in {csv_header, legacy_header, corrupted_header}}

NoAppended == [present |-> FALSE, last_timestamp |-> 0, last_count |-> 0]

InitLog ==
  /\ mode = "log" /\ gpio_available = TRUE /\ InitRecorder
  /\ disk \in {[log |-> f] : f \in LogFiles}
  /\ obs = [op |-> "none", first |-> NoFile, calls |-> 0,
            seed |-> NoSeed, tail |-> NoTail, state |-> NoState,
            row |-> NoAppended, clean |-> FALSE]

\* the states _restore_counter_state may have found before _prepare_storage runs
PersistedStates == {NoState, MachineState(MaxCount, 0)}

\* a recorder is constructed and started: _restore_counter_state found the
\* state ps, then _prepare_storage runs on the log file
log_initialize ==
  /\ obs.calls < MaxCalls
  /\ \E ps \in PersistedStates :
       LET c0 == IF ps.present
                   THEN configure(reset_hour, ps.last_timestamp, ps.last_cycle)
                   ELSE NewCounter
           p == prepare_storage_file(disk.log, c0, ps.present, reset_hour, now)
       IN  /\ disk' = [disk EXCEPT !.log = p.file]
           /\ counter' = p.counter
           /\ counter_initialized' = TRUE
           /\ csv_initialized' = TRUE
           /\ obs' = [obs EXCEPT !.op = "initialize",
                                 !.first = IF obs.calls = 0 THEN disk.log ELSE obs.first,
                                 !.calls = obs.calls + 1,
                                 !.seed = p.seed, !.tail = p.tail, !.state = ps]
  /\ UNCHANGED <<mode, now, reset_hour, restVars>>

\* _record_event of the recorder that was started: the row of the event is
\* appended to the log
log_append ==
  /\ csv_initialized /\ Len(disk.log.rows) < MaxLines
  /\ \E t \in Later :
       LET c == record(reset_hour, counter, t)
       IN  /\ now' = t
           /\ counter' = c
           /\ disk' = [disk EXCEPT !.log = File(disk.log.rows \o
                          <<<<str(c.count), MachineText, isoformat(t)>>>>)]
           /\ obs' = [obs EXCEPT !.op = "append", !.calls = 0,
                                 !.row = Seed(t, c.count), !.clean = TRUE]
  /\ UNCHANGED <<mode, reset_hour, counter_initialized, csv_initialized, restVars>>

\* where _prepare_storage can raise OSError before it wrote anything itself:
\* at mkdir and at the creation of a file that is absent; at the open of
\* _ensure_migrated and at the open of the scan of a file that exists
FailurePoints(file) ==
  IF file.exists THEN {"mkdir", "read", "scan"} ELSE {"mkdir", "create"}

\* (mutant) the log counts as initialized after the failure
initialized_after_failure_set == TRUE

\* self._csv_initialized = True is not reached
initialized_after_failure == FALSE

\* _prepare_storage raising at the failure point at: the file, the counter and
\* self._counter_initialized it leaves; _ensure_migrated has run, and its seed
\* has configured the counter, when the open of the scan fails
prepare_storage_fails(file, c, ci, rh, nowv, at) ==
  IF at # "scan"
    THEN [file |-> file, counter |-> c, counter_initialized |-> ci]
    ELSE LET m == ensure_migrated(file.rows, rh, nowv)
             seeded == m.seed.present /\ SeedApplies(ci)
         IN  [file |-> File(m.lines),
              counter |-> IF seeded
                            THEN configure(rh, m.seed.last_timestamp, m.seed.last_count)
                            ELSE c,
              counter_initialized |-> ci \/ seeded]

\* the first _record_event of a new recorder, _restore_counter_state having
\* found the state ps: _prepare_storage raises, None is returned; obs.op is the
\* failure point, obs.first the file before the call
log_initialize_fails ==
  /\ \E ps \in PersistedStates, at \in FailurePoints(disk.log) :
       LET c0 == IF ps.present
                   THEN configure(reset_hour, ps.last_timestamp, ps.last_cycle)
                   ELSE NewCounter
           p == prepare_storage_fails(disk.log, c0, ps.present, reset_hour, now, at)
       IN  /\ disk' = [disk EXCEPT !.log = p.file]
           /\ counter' = p.counter
           /\ counter_initialized' = p.counter_initialized
           /\ csv_initialized' = initialized_after_failure
           /\ obs' = [obs EXCEPT !.op = at, !.first = disk.log, !.calls = 0,
                                 !.seed = NoSeed, !.tail = NoTail, !.state = ps]
  /\ UNCHANGED <<mode, now, reset_hour, restVars>>

\* rows a write that was cut short, or another program, leaves at the end of
\* the file; the first two are the ones the scan of the tail skips
SkippedRows == {<<str(1), MachineText>>, <<str(1), MachineText, Word("garbage")>>}
DamagedRows == SkippedRows \cup {<<Word("garbage"), MachineText, isoformat(now)>>}

log_damage ==
  /\ disk.log.exists /\ disk.log.rows # <<>> /\ Len(disk.log.rows) < MaxLines
  /\ \E row \in DamagedRows :
       /\ disk' = [disk EXCEPT !.log = File(disk.log.rows \o <<row>>)]
       /\ obs' = [obs EXCEPT !.op = "damage", !.calls = 0,
                             !.clean = obs.clean /\ row \in SkippedRows]
  /\ UNCHANGED <<mode, now, reset_hour, counter, counter_initialized, csv_initialized,
                 restVars>>

NextLog == log_initialize \/ log_initialize_fails \/ log_append \/ log_damage

SpecLog == InitLog /\ [][NextLog]_vars

\* ---------------------------------------------- the state files as text
\* what state.json or the sidecar file holds: nothing (the file is missing),
\* text that is no JSON, JSON that is no object, an object without a usable
\* entry, or an entry; the timestamp of an entry has a UTC offset or has none
Content(kind) == [kind |-> kind, last_cycle |-> 0, last_timestamp |-> 0, aware |-> FALSE]
Entry(c, t, aware) ==
  [kind |-> "entry", last_cycle |-> c, last_timestamp |-> t, aware |-> aware]
Contents ==
  {Content(k) : k \in {"missing", "malformed_json", "not_object", "bad_entry"}}
    \cup {Entry(MaxCount, t, aware) : t \in {0, 1}, aware \in BOOLEAN}

\* a MachineState, with the kind of its timestamp
Absent == [present |-> FALSE, last_cycle |-> 0, last_timestamp |-> 0, aware |-> FALSE]
Loaded(c, t, aware) ==
  [present |-> TRUE, last_cycle |-> c, last_timestamp |-> t, aware |-> aware]

\* load_cycle_state: _load_state_blob returns {} for a missing file and for
\* text that is no JSON, and whatever json.loads returns otherwise; data.get
\* raises AttributeError on a value that is no object
load_cycle_state(content) ==
  IF content.kind = "not_object"
    THEN [raises |-> "AttributeError", state |-> Absent]
  ELSE IF content.kind = "entry"
    THEN [raises |-> "none",
          state |-> Loaded(content.last_cycle, content.last_timestamp, content.aware)]
  ELSE [raises |-> "none", state |-> Absent]

\* _load_sidecar_state: None for a missing file, for text that is no JSON and
\* for a payload without the two fields (KeyError, ValueError, TypeError); a
\* timestamp without offset is taken for UTC
load_sidecar_state(content) ==
  IF content.kind = "entry"
    THEN Loaded(content.last_cycle, content.last_timestamp, TRUE)
    ELSE Absent

\* save_cycle_state as its callers see it: the entry is written into the
\* object _load_state_blob returned; data.setdefault raises AttributeError on a
\* value that is no object, which every caller catches
save_state_file(content, c, t, aware) ==
  IF content.kind = "not_object" THEN content ELSE Entry(c, t, aware)

\* _restore_counter_state on the two files: the exception it raises, the files
\* and the counter it leaves
restore_from_files(dsk, c, ci, rh) ==
  LET ps == load_cycle_state(dsk.state)
      sc == load_sidecar_state(dsk.sidecar)
      both == ps.state.present /\ sc.present
      newer == both /\ sc.last_timestamp > ps.state.last_timestamp
      chosen == IF newer THEN sc ELSE IF ps.state.present THEN ps.state ELSE sc
  IN  IF ps.raises # "none"
        THEN [raises |-> ps.raises, disk |-> dsk, counter |-> c, counter_initialized |-> ci]
      ELSE IF both /\ ps.state.aware # sc.aware
        THEN [raises |-> "TypeError", disk |-> dsk, counter |-> c,
              counter_initialized |-> ci]
      ELSE [raises |-> "none",
            disk |-> [state |-> IF newer
                                  THEN save_state_file(dsk.state, sc.last_cycle,
                                                       sc.last_timestamp, sc.aware)
                                  ELSE dsk.state,
                      sidecar |-> IF both /\ ~newer
                                    THEN Entry(ps.state.last_cycle,
                                               ps.state.last_timestamp, ps.state.aware)
                                    ELSE dsk.sidecar],
            counter |-> IF chosen.present
                          THEN configure(rh, chosen.last_timestamp, chosen.last_cycle)
                          ELSE c,
            counter_initialized |-> chosen.present]

\* the variables the specification of the state files leaves alone
loadRest == <<gpio_available, events_logged, csv, spool, stateStore, sidecar, csv_initialized,
              pending_rows, pending_loaded, lock, pc, ev, faults, failed, hist, shadow,
              saved, manual, fresh_reset, carried, streak, propagated>>

InitLoad ==
  /\ mode = "load" /\ gpio_available = TRUE /\ InitRecorder
  /\ disk \in [state : Contents, sidecar : Contents]
  /\ obs = [op |-> "none"]

\* start, the log and the pin giving no trouble: _restore_counter_state, then
\* _prepare_storage configures a counter that no state configured
load_start ==
  /\ ~running
  /\ LET r == restore_from_files(disk, counter, counter_initialized, reset_hour)
     IN  /\ error' = r.raises
         /\ disk' = r.disk
         /\ running' = (r.raises = "none")
         /\ counter' = IF r.raises = "none" /\ ~r.counter_initialized
                          THEN configure(reset_hour, now, 0) ELSE r.counter
         /\ counter_initialized' = (r.counter_initialized \/ r.raises = "none")
  /\ obs' = [op |-> "start"]
  /\ UNCHANGED <<mode, now, reset_hour, loadRest>>

\* _record_event, the log giving no trouble: the cycle is counted and the two
\* states are saved
record_event_files(dsk, c, ci, rh, t) ==
  LET c1 == record(rh, IF ci THEN c ELSE configure(rh, t, 0), t)
  IN  [counter |-> c1,
       disk |-> [state |-> save_state_file(dsk.state, c1.count, t, TRUE),
                 sidecar |-> Entry(c1.count, t, TRUE)]]

\* simulate_event: _restore_counter_state when the counter is not configured,
\* then _record_event
load_simulate_event ==
  /\ \E t \in Later :
       LET r == IF counter_initialized
                  THEN [raises |-> "none", disk |-> disk, counter |-> counter,
                        counter_initialized |-> TRUE]
                  ELSE restore_from_files(disk, counter, counter_initialized, reset_hour)
           e == record_event_files(r.disk, r.counter, r.counter_initialized,
                                   reset_hour, t)
       IN  /\ now' = t
           /\ error' = r.raises
           /\ disk' = IF r.raises = "none" THEN e.disk ELSE r.disk
           /\ counter' = IF r.raises = "none" THEN e.counter ELSE r.counter
           /\ counter_initialized' = (r.raises = "none" \/ r.counter_initialized)
  /\ obs' = [op |-> "simulate_event"]
  /\ UNCHANGED <<mode, reset_hour, running, loadRest>>

\* _handle_event of a recorder that runs: _record_event
load_handle_event ==
  /\ running
  /\ \E t \in Later :
       LET e == record_event_files(disk, counter, counter_initialized, reset_hour, t)
       IN  /\ now' = t
           /\ disk' = e.disk
           /\ counter' = e.counter
  /\ error' = "none"
  /\ counter_initialized' = TRUE
  /\ obs' = [op |-> "handle_event"]
  /\ UNCHANGED <<mode, reset_hour, running, loadRest>>

\* the process ends and a recorder is constructed in a new one; the files may
\* have been cut short or edited in between
load_restart ==
  /\ obs.op # "restart"
  /\ disk' \in {disk} \cup {[disk EXCEPT !.state = c] : c \in Contents}
                    \cup {[disk EXCEPT !.sidecar = c] : c \in Contents}
  /\ counter' = NewCounter
  /\ counter_initialized' = FALSE
  /\ running' = FALSE
  /\ error' = "none"
  /\ obs' = [op |-> "restart"]
  /\ UNCHANGED <<mode, now, reset_hour, loadRest>>

NextLoad == load_start \/ load_simulate_event \/ load_handle_event \/ load_restart

SpecLoad == InitLoad /\ [][NextLoad]_vars

\* ------------------------------------------------ _persist_sidecar_state
\* the sidecar file and its temporary file: missing, or the JSON text of a
\* payload, whole or cut short
Missing == [exists |-> FALSE, complete |-> FALSE, last_cycle |-> 0, last_timestamp |-> 0]
Written(c, t) == [exists |-> TRUE, complete |-> TRUE, last_cycle |-> c, last_timestamp |-> t]
CutShort(c, t) == [exists |-> TRUE, complete |-> FALSE, last_cycle |-> c, last_timestamp |-> t]

\* (mutant) the payload is written into the sidecar file itself
write_path_in_place == "sidecar"

\* tmp_path.write_text(json.dumps(payload))
write_path == "tmp"

\* the variables the specification of the save leaves alone
saveRest == <<gpio_available, events_logged, reset_hour, csv, spool, stateStore, sidecar, instVars,
              lock, pc, ev, faults, failed, hist, hvars>>

\* obs: the statement the save is at, the sidecar before it, the payload, and
\* how the latest save ended
InitSave ==
  /\ mode = "save" /\ gpio_available = TRUE /\ InitRecorder
  /\ disk \in {[sidecar |-> f, tmp |-> Missing] : f \in {Missing, Written(0, 0)}}
  /\ obs = [at |-> "idle", prev |-> disk.sidecar, payload |-> disk.sidecar,
            ended |-> "none", raised |-> FALSE]

\* the OSError of a statement is caught by the except clause around it
Caught(exc) == exc = "OSError"

\* _persist_sidecar_state(last_cycle, timestamp) is called
save_begin ==
  /\ obs.at = "idle"
  /\ \E c \in 1 .. MaxCount, t \in Later :
       /\ now' = t
       /\ obs' = [at |-> "mkdir", prev |-> disk.sidecar, payload |-> Written(c, t),
                  ended |-> "none", raised |-> FALSE]
  /\ UNCHANGED <<mode, disk, saveRest>>

\* sidecar.parent.mkdir(parents=True, exist_ok=True); on OSError: return
save_mkdir ==
  /\ obs.at = "mkdir"
  /\ \E exc \in {"none", "OSError"} :
       obs' = IF exc = "none" THEN [obs EXCEPT !.at = "write"]
              ELSE [obs EXCEPT !.at = "idle", !.ended = "mkdir_failed",
                               !.raised = ~Caught(exc)]
  /\ UNCHANGED <<mode, now, disk, saveRest>>

\* write_text: the file is created or truncated and the text written; an
\* OSError leaves no file, an empty one or a part of the text
save_write ==
  /\ obs.at = "write"
  /\ \E f \in {obs.payload, CutShort(obs.payload.last_cycle, obs.payload.last_timestamp),
                 disk[write_path]} :
       /\ disk' = [disk EXCEPT ![write_path] = f]
       /\ obs' = [obs EXCEPT !.at = IF f = obs.payload THEN "replace" ELSE "unlink"]
  /\ UNCHANGED <<mode, now, saveRest>>

\* tmp_path.replace(sidecar): the rename puts the whole file in place, or fails
save_replace ==
  /\ obs.at = "replace"
  /\ \E exc \in {"none", "OSError"} :
       IF exc = "none"
         THEN /\ disk' = [sidecar |-> disk.tmp, tmp |-> Missing]
              /\ obs' = [obs EXCEPT !.at = "chmod"]
         ELSE /\ obs' = [obs EXCEPT !.at = "unlink"]
              /\ UNCHANGED disk
  /\ UNCHANGED <<mode, now, saveRest>>

\* _ensure_shared_permissions(sidecar), which catches its own OSError
save_chmod ==
  /\ obs.at = "chmod"
  /\ obs' = [obs EXCEPT !.at = "idle", !.ended = "saved"]
  /\ UNCHANGED <<mode, now, disk, saveRest>>

\* except OSError: tmp_path.unlink(missing_ok=True), its own OSError logged
save_unlink ==
  /\ obs.at = "unlink"
  /\ \E exc \in {"none", "OSError"} :
       /\ disk' = IF exc = "none" THEN [disk EXCEPT !.tmp = Missing] ELSE disk
       /\ exc = "OSError" => disk.tmp.exists
       /\ obs' = [obs EXCEPT !.at = "idle",
                             !.ended = IF exc = "none" THEN "removed" ELSE "not_removed",
                             !.raised = ~Caught("OSError")]
  /\ UNCHANGED <<mode, now, saveRest>>

\* the process ends between two statements of the save, or inside write_text
save_crash ==
  /\ obs.at # "idle"
  /\ disk' \in {disk} \cup
               (IF obs.at = "write"
                  THEN {[disk EXCEPT ![write_path] =
                           CutShort(obs.payload.last_cycle, obs.payload.last_timestamp)]}
                  ELSE {})
  /\ obs' = [obs EXCEPT !.at = "idle", !.ended = "crashed"]
  /\ UNCHANGED <<mode, now, saveRest>>

NextSave ==
  \/ save_begin \/ save_mkdir \/ save_write \/ save_replace \/ save_chmod
  \/ save_unlink \/ save_crash

SpecSave == InitSave /\ [][NextSave]_vars

\* ------------------------------------- two processes, one log file
\* the recorders that log to the same file, each in a process of its own
Writers == {"service", "gui"}

\* write(2) at the position pos of the file: the rows there are overwritten,
\* the file grows when the write goes past its end
write_rows(rows, pos, new_rows) ==
  SubSeq(rows, 1, pos) \o new_rows \o SubSeq(rows, pos + Len(new_rows) + 1, Len(rows))

\* (mutant) without O_APPEND: the descriptor writes at its own offset, the end
\* of the file os.lseek found when it was opened
write_position_own_offset(rows, fd) == fd.offset

\* os.open(path, O_RDWR | O_CREAT | O_APPEND): every write goes to the end the
\* file has when the write is done
write_position(rows, fd) == Len(rows)

\* the variables the specification of the two processes leaves alone
appendRest == <<gpio_available, events_logged, reset_hour, csv, spool, stateStore, sidecar, instVars,
                lock, pc, ev, faults, failed, hist, hvars>>

\* obs, for each process: where its _append_with_retry is, the offset of its
\* descriptor, the rows it has still to write, its _pending_rows, and the rows
\* it has written
InitAppend ==
  /\ mode = "append" /\ gpio_available = TRUE /\ InitRecorder
  /\ disk = [log |-> <<>>]
  /\ obs = [w \in Writers |-> [at |-> "idle", offset |-> 0, todo |-> <<>>,
                                pending |-> <<>>, done |-> <<>>]]

\* _append_with_retry up to _open_for_append: the pending rows and the row of
\* the event are to be written; when the file cannot be opened they all stay
\* pending
writer_open(w) ==
  /\ obs[w].at = "idle"
  /\ \E t \in Later, opened \in BOOLEAN :
       LET rows == rows_to_write(obs[w].pending, Row(Len(obs[w].done) + Len(obs[w].pending) + 1, t))
       IN  /\ now' = t
           /\ obs' = [obs EXCEPT ![w] =
                        IF opened
                          THEN [@ EXCEPT !.at = "write", !.offset = Len(disk.log),
                                         !.todo = rows]
                          ELSE [@ EXCEPT !.pending = rows]]
  /\ UNCHANGED <<mode, disk, appendRest>>

\* writer.writerows, and the flush when the file is closed: the text reaches the
\* file in one write or in several, each of whole rows; after the last one
\* self._pending_rows.clear()
writer_write(w) ==
  /\ obs[w].at = "write"
  /\ \E k \in 1 .. Len(obs[w].todo) :
       LET chunk == SubSeq(obs[w].todo, 1, k)
           pos == write_position(disk.log, obs[w])
           rest == SubSeq(obs[w].todo, k + 1, Len(obs[w].todo))
       IN  /\ disk' = [log |-> write_rows(disk.log, pos, chunk)]
           /\ obs' = [obs EXCEPT ![w] =
                        [@ EXCEPT !.offset = pos + k, !.todo = rest,
                                  !.done = @ \o chunk,
                                  !.at = IF rest = <<>> THEN "idle" ELSE "write",
                                  !.pending = IF rest = <<>> THEN <<>> ELSE @]]
  /\ UNCHANGED <<mode, now, appendRest>>

NextAppend == \E w \in Writers : writer_open(w) \/ writer_write(w)

SpecAppend == InitAppend /\ [][NextAppend]_vars

\* ------------------------------------- the shared state file (state.py)
\* the machine ids with an entry in the state file; the recorders of the first
\* two save and clear their entries, each in a process of its own, the third is
\* a machine nobody records for
StoreMachines == {MachineId, "M202"}
Bystander == "M203"
AllMachines == StoreMachines \cup {Bystander}

\* the values of the keys of "machines": no such key, an entry as
\* save_cycle_state writes it, an entry whose timestamp cannot be parsed
NoEntry == [kind |-> "none", last_cycle |-> 0, last_timestamp |-> Word("")]
StoredEntry(c, t) == [kind |-> "entry", last_cycle |-> c, last_timestamp |-> isoformat(t)]
JunkEntry == [kind |-> "entry", last_cycle |-> 0, last_timestamp |-> Word("junk")]
NoMachines == [m \in AllMachines |-> NoEntry]

\* the state file: missing, text that is no JSON, or a JSON object with its
\* value of "machines" (no such key, not an object, an object) and its other
\* top-level keys
Blob(kind, machines_kind, machines, other) ==
  [kind |-> kind, machines_kind |-> machines_kind, machines |-> machines, other |-> other]
NoBlob == Blob("missing", "absent", NoMachines, "none")
Malformed == Blob("malformed", "absent", NoMachines, "none")
EmptyObject == Blob("object", "absent", NoMachines, "none")

\* _load_state_blob: {} for a missing file and for one json.loads rejects
load_state_blob(file) ==
  IF file.kind \in {"missing", "malformed"} THEN EmptyObject ELSE file

\* (mutant) the entry is written into an empty "machines"
merge_entry_alone(machines, m, entry) == [NoMachines EXCEPT ![m] = entry]

\* machines[machine_id] = {...}
merge_entry(machines, m, entry) == [machines EXCEPT ![m] = entry]

\* (mutant) only "machines" is written back
kept_keys_dropped(data) == "none"

\* _save_state_blob(data) writes every key data has
kept_keys(data) == data.other

\* save_cycle_state, from the blob it loaded to the blob it writes
save_cycle_state_data(data, m, c, t) ==
  LET machines == IF data.machines_kind = "dict" THEN data.machines ELSE NoMachines
  IN  Blob("object", "dict", merge_entry(machines, m, StoredEntry(c, t)), kept_keys(data))

\* clear_cycle_state: whether it writes, and the blob it writes
clear_cycle_state_data(data, m) ==
  IF data.machines_kind # "dict" \/ data.machines[m].kind = "none"
    THEN [writes |-> FALSE, data |-> data]
    ELSE [writes |-> TRUE,
          data |-> Blob("object", "dict", [data.machines EXCEPT ![m] = NoEntry],
                        kept_keys(data))]

\* load_cycle_state, from the blob it loaded
load_machine_state(data, m) ==
  IF data.machines_kind # "dict" \/ data.machines[m].kind = "none"
    THEN NoState
  ELSE IF ~IsIso(data.machines[m].last_timestamp)
    THEN NoState
  ELSE MachineState(data.machines[m].last_cycle,
                    fromisoformat(data.machines[m].last_timestamp))

\* the entry of machine m in the state file
EntryIn(file, m) ==
  IF file.kind = "object" /\ file.machines_kind = "dict" THEN file.machines[m] ELSE NoEntry

\* the state files a process can find
StoreFiles ==
  {NoBlob, Malformed, Blob("object", "scalar", NoMachines, "schema"),
   Blob("object", "dict",
        [m \in AllMachines |-> IF m = Bystander THEN StoredEntry(1, 1)
                                ELSE IF m = MachineId THEN JunkEntry ELSE NoEntry],
        "schema")}

storeRest == <<gpio_available, events_logged, now, reset_hour, csv, spool, stateStore, sidecar, instVars,
               lock, pc, ev, faults, failed, hist, hvars>>

\* obs, for each process: where its call is (at), the call (op) and its
\* arguments, the file as it was when _load_state_blob read it, whether
\* the call wrote the file, what load_cycle_state returned, whether no call of
\* the other process was under way during a step of this one (alone), whether
\* the file it loaded had no entry of p (absent), and
\* whether the load followed a save of this process that had written
InitStore ==
  /\ mode = "store" /\ gpio_available = TRUE /\ InitRecorder
  /\ disk \in [state : StoreFiles]
  /\ obs = [p \in StoreMachines |->
              [at |-> "idle", op |-> "none", c |-> 0, t |-> 0,
               before |-> EmptyObject, absent |-> FALSE, wrote |-> FALSE,
               result |-> NoState,
               alone |-> TRUE, after_save |-> FALSE]]

\* the other process is between its read and its write
Overlaps(p) == \E q \in StoreMachines \ {p} : obs[q].at = "loaded"

\* a step of p while a call of q is under way: neither call is alone
Overlapped(o, p, q) == IF q # p /\ o.at = "loaded" THEN [o EXCEPT !.alone = FALSE] ELSE o

\* data = _load_state_blob() of save_cycle_state(p, c, t) and of
\* clear_cycle_state(p)
store_read(p) ==
  /\ obs[p].at = "idle"
  /\ \E op \in {"save", "clear"}, c \in {MaxCount}, t \in {MaxTime} :
       /\ obs' = [q \in StoreMachines |->
                    IF q = p
                      THEN [obs[p] EXCEPT !.at = "loaded", !.op = op, !.c = c, !.t = t,
                                          !.result = NoState, !.absent = FALSE,
                                          !.before = disk.state, !.wrote = FALSE,
                                          !.alone = ~Overlaps(p), !.after_save = FALSE]
                      ELSE Overlapped(obs[q], p, q)]
  /\ UNCHANGED <<mode, disk, storeRest>>

\* the rest of the call: the entry is set or removed in the blob, and
\* _save_state_blob writes it, or fails to (the OSError is logged)
store_write(p) ==
  /\ obs[p].at = "loaded"
  /\ \E written \in BOOLEAN :
       LET data == load_state_blob(obs[p].before)
           saved_data == save_cycle_state_data(data, p, obs[p].c, obs[p].t)
           cleared == clear_cycle_state_data(data, p)
           writes == written /\ (obs[p].op = "clear" => cleared.writes)
       IN  /\ disk' = IF ~writes THEN disk
                       ELSE [state |-> IF obs[p].op = "save" THEN saved_data
                                                            ELSE cleared.data]
           /\ obs' = [q \in StoreMachines |->
                        IF q = p
                          THEN [obs[p] EXCEPT !.at = "idle", !.wrote = writes,
                                              !.before = EmptyObject,
                                              !.absent = EntryIn(obs[p].before, p) = NoEntry,
                                              !.alone = @ /\ ~Overlaps(p)]
                          ELSE Overlapped(obs[q], p, q)]
  /\ UNCHANGED <<mode, storeRest>>

\* load_cycle_state(p)
store_load(p) ==
  /\ obs[p].at = "idle"
  /\ obs[p].op \in {"save", "clear"}
  /\ obs' = [obs EXCEPT ![p] =
               [@ EXCEPT !.op = "load",
                         !.result = load_machine_state(load_state_blob(disk.state), p),
                         !.after_save = obs[p].op = "save" /\ obs[p].wrote /\ obs[p].alone]]
  /\ UNCHANGED <<mode, disk, storeRest>>

NextStore == \E p \in StoreMachines : store_read(p) \/ store_write(p) \/ store_load(p)

SpecStore == InitStore /\ [][NextStore]_vars


\* ------------------------------------------------------------------ claims
\* _record_event has just returned a cycle number to thread th
Returned(th) == pc[th] = "ret" /\ ev[th].ret # 0

\* ... and it is the first one of a new process, the latest completed operation
\* of the previous process being a RecordEvent
FirstAfterRestart(th) == Returned(th) /\ Len(hist) = 1 /\ shadow.count >= 1

\* what a recorder that was never restarted returns for an event at t
Uninterrupted(t) == IF t >= shadow.next_reset THEN 1 ELSE shadow.count + 1

C1_WitnessReset ==
  \E th \in Threads :
    /\ FirstAfterRestart(th) /\ saved
    /\ ev[th].ts >= shadow.next_reset
    /\ ev[th].ret = 1


\* a reset boundary lies after the instant a and not after the instant b
BoundaryBetween(a, b) == calculate_next_reset(reset_hour, a) <= b

\* the cycle numbers of two consecutive rows: higher, or 1 across a reset boundary
InOrder(r1, r2) ==
  \/ r2[1] > r1[1]
  \/ r2[1] = 1 /\ BoundaryBetween(r1[3], r2[3])

\* C2: with no manual reset (and no file operation failing), the cycle numbers
\* written to the log are strictly increasing between reset boundaries, whatever
\* restarts happen, a crash at any step inside _record_event included
C2_LogStrictlyIncreasing ==
  ~manual /\ faults = 0 =>
    \A i \in 1 .. (Len(csv.rows) - 1) : InOrder(csv.rows[i], csv.rows[i + 1])


\* the number of rows of a sequence that carry the timestamp ts (one event each)
Occurrences(rows, ts) == Cardinality({i \in DOMAIN rows : rows[i][3] = ts})

\* the event stamped ts is once in the log or in the pending list, not in both
ExactlyOnce(ts) == Occurrences(csv.rows, ts) + Occurrences(pending_rows, ts) = 1

\* a write to the log has succeeded and the pending list is not cleared yet
Flushing == \E th \in Threads : pc[th] = "append_ok"

AppendFails(th) == pc[th] = "append" /\ pc'[th] = "save_state"

\* the rows that were pending are kept in their order and the new row is the last
KeptLast(th) ==
  LET n == Len(pending_rows')
  IN  /\ n > Len(pending_rows)
      /\ SubSeq(pending_rows', 1, Len(pending_rows)) = pending_rows
      /\ pending_rows'[n] = NewRow(th)

\* the cycle number that will be returned is the one the counter has advanced to
ReturnsAdvanced(th) ==
  /\ ev'[th].ret = ev[th].ret
  /\ ev[th].ret = counter'.count
  /\ ev[th].ret >= 1

IsSuffix(s, t) ==
  Len(s) <= Len(t) /\ SubSeq(t, Len(t) - Len(s) + 1, Len(t)) = s

\* the cycle numbers of the rows follow each other: the next one, or 1 again
NoGap(rows) ==
  \A i \in 1 .. (Len(rows) - 1) :
    rows[i + 1][1] = rows[i][1] + 1 \/ rows[i + 1][1] = 1

\* the last n rows of a sequence
LastRows(rows, n) == SubSeq(rows, Len(rows) - n + 1, Len(rows))

\* the rows of the failed appends in a row, then the new row
StreakRows(th) == LastRows(pending_rows \o <<NewRow(th)>>, streak + 1)

\* C5: after failed appends and one successful _record_event, the log ends with
\* the rows that were pending followed by the new row, in the order the events
\* were recorded, each exactly once and with no gap in the cycle numbers, and the
\* pending list is then empty
C5_FlushInOrder ==
  /\ \A th \in Threads :
       pc[th] = "append_ok" =>
         /\ IsSuffix(pending_rows \o <<NewRow(th)>>, csv.rows)
         /\ streak < Len(pending_rows \o <<NewRow(th)>>)
         /\ IsSuffix(StreakRows(th), hist)
         /\ \A i \in DOMAIN StreakRows(th) :
              Occurrences(csv.rows, StreakRows(th)[i][3]) = 1
         /\ NoGap(StreakRows(th))
  /\ \A th \in Threads :
       /\ pc[th] \in {"save_state", "save_sidecar", "ret"}
       /\ "append" \notin failed /\ ev[th].ret # 0
       => pending_rows = <<>>

C5_Witness ==
  \E th \in Threads :
    /\ pc[th] = "append_ok"
    /\ streak = 2
    /\ csv.rows = StreakRows(th)
    /\ NoGap(StreakRows(th))


\* C6: the rows that were pending (and in the spool file) when the process ended
\* are loaded by the new process and written to the log ahead of its first new
\* row, in their original order
C6_PendingSurvive ==
  ~Flushing /\ pending_rows = <<>> /\ hist # <<>> => IsSuffix(carried \o hist, csv.rows)


\* start has restored the counter and prepared the storage
AfterStart(th) == pc[th] \in {"setup_gpio", "start_raised"}

\* the counter as _restore_counter_state seeds it from a state
Seeded(state) == configure(reset_hour, state.last_timestamp, state.last_cycle)

\* start found both states, the sidecar's timestamp strictly later
FoundSidecarLater(th) ==
  /\ AfterStart(th)
  /\ ev[th].persisted_state.present /\ ev[th].sidecar_state.present
  /\ ev[th].sidecar_state.last_timestamp > ev[th].persisted_state.last_timestamp

\* start found both states, the sidecar's timestamp not later
FoundStoreLaterOrEqual(th) ==
  /\ AfterStart(th)
  /\ ev[th].persisted_state.present /\ ev[th].sidecar_state.present
  /\ ev[th].persisted_state.last_timestamp >= ev[th].sidecar_state.last_timestamp

C8_AsStated ==
  \A th \in Threads :
    FoundStoreLaterOrEqual(th) =>
      /\ counter = Seeded(ev[th].persisted_state)
      /\ sidecar = ev[th].persisted_state

\* C8 amended: when both states are present and the timestamp of the entry of
\* state.json is later than or equal to the sidecar's, the counter is seeded from
\* that entry, the entry is left as it is, and the sidecar is overwritten to equal
\* it unless that write fails; only a strictly later sidecar wins
C8_StoreWinsTie ==
  \A th \in Threads :
    FoundStoreLaterOrEqual(th) =>
      /\ counter = Seeded(ev[th].persisted_state)
      /\ stateStore = ev[th].persisted_state
      /\ "sidecar_save" \notin failed => sidecar = ev[th].persisted_state

C8_Witness ==
  \E th \in Threads :
    /\ FoundStoreLaterOrEqual(th)
    /\ ev[th].persisted_state.last_timestamp = ev[th].sidecar_state.last_timestamp
    /\ ev[th].persisted_state.last_cycle # ev[th].sidecar_state.last_cycle
    /\ counter.count = ev[th].persisted_state.last_cycle
    /\ sidecar = ev[th].persisted_state

C8_WitnessLater ==
  \E th \in Threads :
    /\ FoundStoreLaterOrEqual(th)
    /\ ev[th].persisted_state.last_timestamp > ev[th].sidecar_state.last_timestamp
    /\ counter.count = ev[th].persisted_state.last_cycle
    /\ sidecar = ev[th].persisted_state


\* reset_cycle_counter has done its two saves and is about to return
AfterReset(th) == pc[th] = "reset_done"

\* _record_event has returned, no operation on the counter since a manual reset
NextAfterReset(th) == fresh_reset /\ pc[th] = "ret"

\* C9 as stated: right after a manual reset both persisted states hold cycle 0
\* and the reference, and the next _record_event returns 1 whatever the timestamp
\* and the count before the reset
C9_AsStated ==
  /\ \A th \in Threads :
       AfterReset(th) =>
         /\ stateStore = MachineState(0, ev[th].ts)
         /\ sidecar = MachineState(0, ev[th].ts)
  /\ \A th \in Threads : NextAfterReset(th) => ev[th].ret = 1

\* C9 amended: right after a manual reset each persisted state whose save did not
\* fail holds cycle 0 and the reference, and the next _record_event returns 1
\* whatever the timestamp and the count before the reset, unless it returns None
\* because the storage could not be prepared
C9_ManualReset ==
  /\ \A th \in Threads :
       AfterReset(th) =>
         /\ "state_save" \notin failed => stateStore = MachineState(0, ev[th].ts)
         /\ "sidecar_save" \notin failed => sidecar = MachineState(0, ev[th].ts)
  /\ \A th \in Threads :
       NextAfterReset(th) =>
         \/ ev[th].ret = 1
         \/ ev[th].ret = 0 /\ "storage" \in failed

C9_Witness ==
  \E th \in Threads :
    /\ NextAfterReset(th) /\ ev[th].ret = 1
    /\ Len(hist) >= 2
    /\ hist[Len(hist) - 1][1] >= 1
    /\ ~BoundaryBetween(hist[Len(hist) - 1][3], ev[th].ts)
    /\ stateStore = MachineState(1, ev[th].ts)

C9_WitnessSaved ==
  \E th \in Threads :
    /\ AfterReset(th) /\ shadow.count >= 1
    /\ stateStore = MachineState(0, ev[th].ts)
    /\ sidecar = MachineState(0, ev[th].ts)


\* C10: two _record_event calls running concurrently on one recorder never return
\* the same cycle number (no manual reset, no reset boundary between the two)
C10_NoDuplicateCycle ==
  ~manual =>
    \A i \in DOMAIN hist, j \in DOMAIN hist :
      i < j /\ hist[i][1] = hist[j][1] =>
        \/ BoundaryBetween(hist[i][3], hist[j][3])
        \/ BoundaryBetween(hist[j][3], hist[i][3])

\* C10, its premise: the counter advances only while the lock is held
C10_AdvanceUnderLock ==
  \A th \in Threads : pc[th] \in {"inc_load", "inc_store", "inc_ret"} => lock = th


\* C11: when the GPIO callback thread and the user-interface thread record
\* concurrently on one recorder, the rows reach the log in the order their cycle
\* numbers were issued: from one row of the log to the next the cycle number
\* never decreases except across a reset boundary (no manual reset)
C11_LogInIssueOrder ==
  ~manual =>
    \A i \in 1 .. (Len(csv.rows) - 1) :
      \/ csv.rows[i + 1][1] >= csv.rows[i][1]
      \/ BoundaryBetween(csv.rows[i][3], csv.rows[i + 1][3])

\* thread th is inside the callback, which has not returned
InCallback(th) == pc[th] = "callback"

C13_CallbackIsolated == ~propagated

\* thread th has done the two state saves of _record_event, none of them failing
SavesDone(th) ==
  /\ pc[th] = "save_sidecar" /\ pc'[th] = "ret"
  /\ "state_save" \notin failed' /\ "sidecar_save" \notin failed'

\* C18: when _record_event has done its two state saves for the cycle number n
\* and the timestamp t, no state-file operation failing, the entry of state.json
\* and the sidecar both hold (n, t), the row be appended or spooled (no manual
\* reset)
C18_BothStoresHold ==
  [][\A th \in Threads :
       SavesDone(th) /\ ~manual' =>
         /\ stateStore' = MachineState(ev[th].ret, ev[th].ts)
         /\ sidecar' = MachineState(ev[th].ret, ev[th].ts)]_vars


\* a state save of _record_event leaves the cycle number to return, the counter,
\* the log and the pending list as they are
SaveFrame(th) ==
  /\ ev'[th].ret = ev[th].ret /\ ev[th].ret # 0
  /\ counter' = counter
  /\ csv' = csv
  /\ pending_rows' = pending_rows

\* C19: the two state saves of _record_event are best effort and independent:
\* whether save_cycle_state fails or not, _persist_sidecar_state is called next
\* and writes the sidecar unless it fails itself; whether that one fails or not,
\* _record_event returns the cycle number; neither changes the cycle number, the
\* counter, the log or the pending list
C19_SavesIndependent ==
  [][\A th \in Threads :
       /\ pc[th] = "save_state" /\ pc'[th] # pc[th] =>
            /\ pc'[th] = "save_sidecar"
            /\ SaveFrame(th)
            /\ "state_save" \notin failed' =>
                 stateStore' = MachineState(ev[th].ret, ev[th].ts)
       /\ pc[th] = "save_sidecar" /\ pc'[th] # pc[th] =>
            /\ pc'[th] = "ret"
            /\ SaveFrame(th)
            /\ "sidecar_save" \notin failed' =>
                 sidecar' = MachineState(ev[th].ret, ev[th].ts)]_vars

\* save_cycle_state failed and the sidecar was written all the same
C19_Witness ==
  \E th \in Threads :
    /\ Returned(th)
    /\ "state_save" \in failed /\ "sidecar_save" \notin failed
    /\ sidecar = MachineState(ev[th].ret, ev[th].ts)
    /\ stateStore # MachineState(ev[th].ret, ev[th].ts)
    /\ counter.count = ev[th].ret
    /\ Occurrences(csv.rows, ev[th].ts) = 1

\* the sidecar save failed after save_cycle_state wrote the entry
C19_WitnessReverse ==
  \E th \in Threads :
    /\ Returned(th)
    /\ "sidecar_save" \in failed /\ "state_save" \notin failed
    /\ stateStore = MachineState(ev[th].ret, ev[th].ts)
    /\ sidecar # MachineState(ev[th].ret, ev[th].ts)


\* thread th calls start
StartCalled(th) ==
  pc[th] = "idle" /\ pc'[th] \in {"setup_gpio", "start_raised", "start_noop"}

\* C20: start on a monitor that is running restores no state, configures no
\* counter, writes no state store, prepares no storage and does not go through
\* _setup_gpio: it returns with the files and the instance as they were
C20_StartNoOp ==
  [][\A th \in Threads :
       /\ StartCalled(th) /\ running =>
            /\ pc'[th] = "start_noop"
            /\ fsVars' = fsVars /\ instVars' = instVars
       /\ pc[th] = "start_noop" /\ pc'[th] # pc[th] =>
            /\ pc'[th] = "idle"
            /\ fsVars' = fsVars /\ instVars' = instVars]_vars

\* start has found the monitor running, the two persisted states differing (a
\* reconciliation would write one of them) and the counter ahead of both
C20_Witness ==
  \E th \in Threads :
    /\ pc[th] = "start_noop" /\ running
    /\ stateStore.present /\ sidecar.present /\ stateStore # sidecar
    /\ counter.count > stateStore.last_cycle

\* ------------------------------------------------- claims on the counter alone
\* the reset boundaries: reset_hour:00:00 of every day
Boundaries == {d * SlotsPerDay + reset_hour : d \in 0 .. MaxStamp + 1}

\* the boundaries after the instant a and not after the instant b
Crossed(a, b) == {x \in Boundaries : a < x /\ x <= b}

\* the earliest boundary strictly after the instant t
FirstBoundaryAfter(t) ==
  CHOOSE b \in Boundaries : b > t /\ \A x \in Boundaries : x > t => b <= x

\* configure has been called on the counter, or never
Configured == ev["ui"].kind = "configure"
Fresh == ~Configured

\* the latest call on the counter was record(t), which returned ret
LatestRecord == ev["hw"].kind = "record"

StrictlyIncreasing(rows) ==
  \A i \in 1 .. (Len(rows) - 1) : rows[i][3] < rows[i + 1][3]

NonDecreasing(rows) ==
  \A i \in 1 .. (Len(rows) - 1) : rows[i][3] <= rows[i + 1][3]

\* no boundary lies between two of the timestamps
SameDay(rows) ==
  \A i \in DOMAIN rows, j \in DOMAIN rows :
    i < j => Crossed(rows[i][3], rows[j][3]) = {}

\* the timestamps never went back, the reference of configure included
Monotone ==
  /\ NonDecreasing(hist)
  /\ Configured /\ hist # <<>> => ev["ui"].ts <= hist[1][3]

\* C14: for strictly increasing timestamps that all lie before the same reset
\* boundary, the k-th record of a fresh counter returns k
C14_CountsInOrder ==
  Fresh /\ StrictlyIncreasing(hist) /\ SameDay(hist) =>
    \A k \in DOMAIN hist : hist[k][1] = k

C14_Witness ==
  /\ Fresh /\ Len(hist) = 3 /\ StrictlyIncreasing(hist) /\ SameDay(hist)
  /\ hist[3][1] = 3


\* C15: a record(t) with t at or after the counter's next_reset returns 1, and
\* the later records before the following boundary go on 2, 3, ...: of two
\* records in a row the second returns 1 when a boundary lies between them and
\* one more than the first when none does
C15_DailyReset ==
  /\ LatestRecord /\ shadow.has_reset /\ ev["hw"].ts >= shadow.next_reset
       => ev["hw"].ret = 1
  /\ Monotone =>
       \A i \in 1 .. (Len(hist) - 1) :
         hist[i + 1][1] = IF Crossed(hist[i][3], hist[i + 1][3]) # {}
                            THEN 1 ELSE hist[i][1] + 1

\* an event before the boundary, one after it and a later one of the same day
\* return 1, 1, 2 (reset_hour = 3 with events at 02:00, 04:00 and 05:00, on the
\* scale of the model)
C15_Witness ==
  /\ Fresh /\ reset_hour = 2
  /\ hist = <<Row(1, 1), Row(1, 3), Row(2, 4)>>
  /\ Crossed(1, 3) = {2} /\ Crossed(3, 4) = {}


\* C16: configure(reference, N) sets next_reset to the first boundary strictly
\* after reference (the next day when reference is exactly on a boundary) and the
\* count to N, and a record(t) that follows with reference <= t < next_reset
\* returns N + 1
C16_Reseed ==
  /\ Configured /\ hist = <<>> =>
       /\ counter.next_reset = FirstBoundaryAfter(ev["ui"].ts)
       /\ counter.count = ev["ui"].tmp
  /\ /\ Configured /\ Len(hist) = 1
     /\ ev["ui"].ts <= hist[1][3]
     /\ hist[1][3] < FirstBoundaryAfter(ev["ui"].ts)
     => hist[1][1] = ev["ui"].tmp + 1

C16_Witness ==
  /\ Configured /\ Len(hist) = 1
  /\ ev["ui"].ts \in Boundaries
  /\ ev["ui"].tmp = 2
  /\ shadow.next_reset = ev["ui"].ts + SlotsPerDay
  /\ ev["ui"].ts < hist[1][3] /\ hist[1][3] < shadow.next_reset
  /\ hist[1][1] = 3


\* the timestamp handed to the counter before the latest record: that of the
\* record before, or the reference of configure
Previous ==
  IF Len(hist) >= 2 THEN hist[Len(hist) - 1][3] ELSE ev["ui"].ts

\* C17: a record(t) that crosses one or more reset boundaries returns 1, after
\* every record(t) next_reset is strictly after t, and when the timestamps never
\* went back it is the earliest boundary strictly after t
C17_MultiDayGap ==
  LatestRecord =>
    /\ counter.next_reset > ev["hw"].ts
    /\ Monotone => counter.next_reset = FirstBoundaryAfter(ev["hw"].ts)
    /\ Monotone /\ (Configured \/ Len(hist) >= 2)
         /\ Crossed(Previous, ev["hw"].ts) # {}
         => ev["hw"].ret = 1

C17_Witness ==
  /\ LatestRecord /\ Monotone /\ Len(hist) >= 2
  /\ hist[Len(hist) - 1][1] >= 2
  /\ Cardinality(Crossed(Previous, ev["hw"].ts)) >= 2
  /\ ev["hw"].ret = 1
  /\ counter.next_reset = FirstBoundaryAfter(ev["hw"].ts)

\* ---------------------------------------------------------------- stop
\* a step of stop: it holds the lock before the step or after it
StopStep == pc["ui"] = "stop" \/ pc'["ui"] = "stop"

ArmingFailed == pc["ui"] = "idle" /\ error \in {"GPIOUnavailableError", "RuntimeError"}

\* C22: when the edge detection cannot be armed, Start() fails with the
\* hardware-unavailable error (GPIOUnavailableError) and the recorder is left
\* not running.
C22_ArmingFailureIsUnavailable ==
  ArmingFailed => error = "GPIOUnavailableError" /\ ~running

\* ------------------------------------------- simulate_event without start
\* the state simulate_event found when it restored the counter itself
FoundState(th) == chosen_state(ev[th].persisted_state, ev[th].sidecar_state)

\* a manual test event returned that found the counter not configured and a
\* persisted state to seed it from
LazySeeded(th) == Returned(th) /\ ev[th].kind = "sim" /\ FoundState(th).present

\* a later event of the process is about to repeat the lazy initialization
RepeatsPrepare(th) == pc[th] = "prepare" /\ Len(hist) >= 1

\* C23: RecordEvent works without a prior Start(): a manual test event on a
\* freshly constructed recorder initializes the storage, seeds the counter from
\* the persisted state (last_cycle = N) and records cycle N+1 when the event is
\* before the next reset boundary (1 at or after it); on the later events the
\* initialization changes nothing.
C23_LazyInitialization ==
  /\ [](\A th \in Threads :
         LazySeeded(th) =>
           /\ csv_initialized /\ counter_initialized /\ csv.exists
           /\ ev[th].ret = IF ev[th].ts >= Seeded(FoundState(th)).next_reset
                              THEN 1 ELSE FoundState(th).last_cycle + 1
           /\ hist # <<>> /\ hist[Len(hist)] = NewRow(th))
  /\ [][\A th \in Threads :
          RepeatsPrepare(th) =>
            UNCHANGED <<fsVars, instVars>>]_vars

\* reached: the recorder was constructed with a state of N >= 1 cycles stored,
\* it is not running, and its first event, a manual test event before the
\* boundary, got N+1
C23_Witness ==
  \E th \in Threads :
    /\ LazySeeded(th) /\ ~running /\ Len(hist) = 1
    /\ FoundState(th).last_cycle >= 1
    /\ ev[th].ts < Seeded(FoundState(th)).next_reset
    /\ ev[th].ret = FoundState(th).last_cycle + 1

\* reached: the second manual test event of such a process is initializing
C23_WitnessRepeat ==
  \E th \in Threads :
    /\ RepeatsPrepare(th) /\ ev[th].kind = "sim" /\ ~running
    /\ csv_initialized /\ pending_loaded

\* ------------------------------------------------- the log file as text
\* the file _prepare_storage found, before the first of its latest calls in a
\* row, has the header h
FoundHeader(h) == obs.first.exists /\ obs.first.rows # <<>> /\ Head(obs.first.rows) = h

\* the latest operation is _prepare_storage, run k times in a row or more
Initialized(k) == obs.op = "initialize" /\ obs.calls >= k

\* a row _prepare_storage and _ensure_migrated do not take for a record
Unparsed(row) == Len(row) < 3 \/ ~IsIso(row[Len(row)])

\* C24: Initialize() is idempotent on a log that has the current 3-column
\* header: after any number of calls the file, header and rows, is what it was
\* before the first call.
C24_InitializeIdempotent ==
  Initialized(1) /\ FoundHeader(csv_header) => disk.log = obs.first

\* reached: two calls at least on a file with rows, one of them not a record
C24_Witness ==
  /\ Initialized(2) /\ FoundHeader(csv_header)
  /\ Len(obs.first.rows) >= 3
  /\ \E i \in 2 .. Len(obs.first.rows) : Unparsed(obs.first.rows[i])
  /\ \E i \in 2 .. Len(obs.first.rows) : ~Unparsed(obs.first.rows[i])

\* the rows of a legacy file that are records: 2 fields at least, the last one
\* a timestamp
ValidLegacy(rows) == SelectSeq(rows, LAMBDA r : Len(r) >= 2 /\ IsIso(r[Len(r)]))

\* a fresh _CycleCounter with the default reset hour after the first k of them
RECURSIVE Replay(_, _)
Replay(v, k) ==
  IF k = 0 THEN NewCounter
  ELSE record(DefaultResetHour, Replay(v, k - 1), fromisoformat(v[k][Len(v[k])]))

\* the rows the migration is to write for them
Migrated(v) ==
  [k \in 1 .. Len(v) |->
     <<str(Replay(v, k).count), v[k][1], isoformat(fromisoformat(v[k][Len(v[k])]))>>]

\* the seed it is to return
MigrationSeed(v) ==
  IF v = <<>> THEN Seed(now, 0)
  ELSE Seed(fromisoformat(v[Len(v)][Len(v[Len(v)])]), Replay(v, Len(v)).count)

\* C25: the migration of a legacy 2-column log keeps every valid row in its
\* place, gives each the cycle number a fresh counter with the default reset
\* hour returns for its timestamp, writes the 3-column header, and returns the
\* last (timestamp, cycle number) as the seed; the seed configures the counter
\* of the recorder only when no persisted state had configured it.
C25_Migration ==
  obs.op = "initialize" /\ obs.calls = 1 /\ FoundHeader(legacy_header) =>
    LET v == ValidLegacy(Tail(obs.first.rows))
    IN  /\ disk.log = File(<<csv_header>> \o Migrated(v))
        /\ obs.seed = MigrationSeed(v)
        /\ counter = IF obs.state.present
                        THEN configure(reset_hour, obs.state.last_timestamp,
                                       obs.state.last_cycle)
                        ELSE configure(reset_hour, obs.seed.last_timestamp,
                                       obs.seed.last_count)

\* reached: a legacy file of two valid rows on the two sides of a reset
\* boundary, one of them not in the form isoformat writes, was migrated and
\* seeded the counter
C25_Witness ==
  /\ obs.op = "initialize" /\ obs.calls = 1 /\ FoundHeader(legacy_header)
  /\ ~obs.state.present
  /\ Len(ValidLegacy(Tail(obs.first.rows))) = 2
  /\ \E i \in 2 .. Len(obs.first.rows) : obs.first.rows[i][2].tag = "isoalt"
  /\ obs.seed.last_count = 1
  /\ counter.count = 1

\* reached: the counter had been configured from a persisted state, and the
\* seed of the migration, another count, was not applied
C25_WitnessConfigured ==
  /\ obs.op = "initialize" /\ obs.calls = 1 /\ FoundHeader(legacy_header)
  /\ obs.state.present
  /\ obs.seed.present /\ obs.seed.last_count # counter.count

\* the file found has a header that is neither the current nor the legacy one
FoundCorrupted ==
  /\ obs.first.exists /\ obs.first.rows # <<>>
  /\ Head(obs.first.rows) \notin {csv_header, legacy_header}

\* C26: when the header of an existing log is neither the current one nor the
\* legacy one, Initialize() leaves a file of the header only: no data row of
\* the old file remains.
C26_CorruptedBecomesHeaderOnly ==
  obs.op = "initialize" /\ obs.calls = 1 /\ FoundCorrupted =>
    disk.log = File(<<csv_header>>)

\* C27: after a row (cycle number, machine, timestamp) is appended, the scan of
\* the tail returns that (timestamp, cycle number) exactly, also when rows of
\* fewer than 3 fields or with an unparsable timestamp follow it.
C27_TailRoundTrip ==
  obs.op = "initialize" /\ obs.row.present /\ obs.clean =>
    obs.tail = [found |-> TRUE, last_timestamp |-> obs.row.last_timestamp,
                last_count |-> obs.row.last_count]

\* reached: the row that was appended is followed by a row the scan skips
C27_Witness ==
  /\ obs.op = "initialize" /\ obs.row.present /\ obs.clean
  /\ Unparsed(disk.log.rows[Len(disk.log.rows)])

\* ---------------------------------------------- the state files as text
\* C28: corrupt persisted data is never raised to the caller: whatever the state
\* file and the sidecar file hold (nothing, text that is no JSON, JSON that is
\* no object, an unusable entry, a timestamp without offset), Start() and
\* RecordEvent return without an exception.
C28_CorruptDataNotRaised ==
  obs.op \in {"start", "simulate_event", "handle_event"} => error = "none"

\* ------------------------------------------------ _persist_sidecar_state
\* what a reader of the sidecar file finds: no file, the whole content from
\* before the save, or the whole new content
SidecarWhole ==
  /\ disk.sidecar.exists => disk.sidecar.complete
  /\ disk.sidecar \in {Missing, obs.prev, obs.payload}

\* the latest save returned without having put the payload in place
SaveFailed == obs.at = "idle" /\ obs.ended \in {"mkdir_failed", "removed", "not_removed"}

\* C29 as stated: at every step of a save, and after a crash at any step, the
\* sidecar file is absent, the whole previous content or the whole new content;
\* when the save fails the previous content is kept, the temporary file is
\* removed, and nothing is raised
C29_AsStated ==
  /\ SidecarWhole
  /\ SaveFailed => disk.sidecar = obs.prev /\ ~disk.tmp.exists /\ ~obs.raised

\* C29 amended: at every step of a save, and after a crash at any step, the
\* sidecar file is absent, the whole previous content or the whole new content;
\* when the save fails the previous content is kept and nothing is raised, and
\* the temporary file is removed when the save got as far as writing it and the
\* removal itself does not fail
C29_SaveAtomic ==
  /\ SidecarWhole
  /\ SaveFailed => disk.sidecar = obs.prev /\ ~obs.raised
  /\ obs.at = "idle" /\ obs.ended = "removed" => ~disk.tmp.exists

\* reached: a save over an existing sidecar failed at the rename, the previous
\* content is in place and the temporary file is gone
C29_Witness ==
  /\ obs.at = "idle" /\ obs.ended = "removed"
  /\ obs.prev.exists /\ obs.prev # obs.payload
  /\ disk.sidecar = obs.prev /\ ~disk.tmp.exists

\* ------------------------------------- two processes, one log file
\* the number of times the row is in the file
TimesInLog(row) == Cardinality({i \in DOMAIN disk.log : disk.log[i] = row})

\* the rows of the file before the step are still there after it, in place
LogKept == Len(disk.log) <= Len(disk.log') /\ SubSeq(disk.log', 1, Len(disk.log)) = disk.log

\* C30: when two independent processes append to the same log file at the same
\* time, every row either of them has written is in the file exactly once, and
\* no write overwrites or truncates a row, in every interleaving of their writes.
C30_ConcurrentAppend ==
  /\ [](\A w \in Writers :
         \A i \in DOMAIN obs[w].done : TimesInLog(obs[w].done[i]) = 1)
  /\ [][LogKept]_vars

\* reached: a process wrote a batch of two rows in two writes and the row of
\* the other process went in between them
C30_Witness ==
  \E w \in Writers : \E o \in Writers \ {w} :
    /\ Len(obs[w].done) = 2 /\ Len(obs[o].done) = 1
    /\ disk.log = <<obs[w].done[1], obs[o].done[1], obs[w].done[2]>>
    /\ obs[o].offset = 2

\* the top-level keys of the state file other than "machines"
OtherKeys(file) == IF file.kind = "object" THEN file.other ELSE "none"

\* the latest call of p was a save that wrote the file, and no call of the other
\* process was under way during it
SavedAlone(p) ==
  obs[p].at = "idle" /\ obs[p].op = "save" /\ obs[p].wrote /\ obs[p].alone

C31_LostUpdate ==
  /\ \A p \in StoreMachines : obs[p].at = "idle" /\ obs[p].op = "save" /\ obs[p].wrote
  /\ \E p \in StoreMachines : EntryIn(disk.state, p) = NoEntry

WritesAlone(p) == obs[p].at = "loaded" /\ obs'[p].at = "idle" /\ obs'[p].alone

C32_WitnessDelete ==
  \E p \in StoreMachines :
    /\ obs[p].at = "idle" /\ obs[p].op = "clear" /\ obs[p].alone /\ ~obs[p].wrote
    /\ obs[p].absent
    /\ OtherKeys(disk.state) = "schema"

\* no read and no write of the spool file failed in the event of th
SpoolIoWorked == failed \cap {"spool_read", "spool_write"} = {}

\* the spool file holds the pending list, and is absent when the list is empty
SpoolMirrorsPending ==
  /\ spool.exists <=> pending_rows # <<>>
  /\ spool.exists => spool.rows = pending_rows

\* C33 as stated: after every _record_event that completed, the one that
\* returned None included, with no failure of the spool file
C33_AsStated ==
  \A th \in Threads :
    pc[th] = "ret" /\ SpoolIoWorked => SpoolMirrorsPending

\* C33: after a _record_event that returned a cycle number and in which no read
\* and no write of the spool file failed, the spool file exists exactly when
\* the pending list is not empty and holds its rows in order; after an append
\* that succeeded it is absent.
C33_SpoolMirrorsPending ==
  \A th \in Threads :
    Returned(th) /\ SpoolIoWorked =>
      /\ SpoolMirrorsPending
      /\ "append" \notin failed => ~spool.exists /\ pending_rows = <<>>

C33_Witness ==
  \E th \in Threads :
    /\ Returned(th) /\ SpoolIoWorked /\ "append" \in failed
    /\ Len(pending_rows) = 2 /\ spool.exists

C33_WitnessFlushed ==
  \E th \in Threads :
    /\ Returned(th) /\ SpoolIoWorked /\ "append" \notin failed
    /\ carried # <<>> /\ ~spool.exists

\* s is the beginning of t
IsPrefix(s, t) == Len(s) <= Len(t) /\ SubSeq(t, 1, Len(s)) = s

\* an event has arrived while rows are pending, and the log can be written:
\* no file operation fails any more
EventFindsLogWritable(th) ==
  /\ ev[th].kind \in {"hw", "sim"} /\ pc[th] \in {"prepare", "record", "append"}
  /\ pending_rows # <<>> /\ faults = FaultBudget

\* a step of _append_with_retry
AppendStep == \E th \in Threads : pc[th] \in {"append", "append_ok"}

\* C34: when an event arrives while rows are pending and the log can be
\* written, the pending list becomes empty, and it is emptied only once its rows
\* are in the log, followed by the row of that event; no step outside
\* _append_with_retry (the steps of start, stop and reset_cycle_counter among
\* them) changes the rows of the log or takes a row off the pending list.
C34_RetryByLaterEvent ==
  /\ \A th \in Threads : EventFindsLogWritable(th) ~> pending_rows = <<>>
  /\ [][pending_rows # <<>> /\ pending_rows' = <<>> =>
         \E th \in Threads :
           pc[th] = "append_ok" /\ IsSuffix(pending_rows \o <<NewRow(th)>>, csv'.rows)]_vars
  /\ [][~AppendStep => csv'.rows = csv.rows /\ IsPrefix(pending_rows, pending_rows')]_vars

C34_Witness ==
  \E th \in Threads :
    /\ pc[th] = "append_ok" /\ pending_rows # <<>>
    /\ IsSuffix(pending_rows \o <<NewRow(th)>>, csv.rows)

C34_WitnessNotFlushed ==
  /\ pc["ui"] = "reset_done" /\ pending_rows # <<>>
  /\ Occurrences(csv.rows, pending_rows[1][3]) = 0

\* the rows of a log that are records: 3 fields at least, the third a timestamp
ValidRows(rows) == SelectSeq(rows, LAMBDA r : Len(r) >= 3 /\ IsIso(r[3]))

\* the last of them, as (timestamp, cycle number)
LastLogged(rows) ==
  LET v == ValidRows(rows)
      r == v[Len(v)]
  IN  Seed(fromisoformat(r[3]), IF IsInt(r[1]) THEN int(r[1]) ELSE 0)

\* _prepare_storage of a new recorder has run, and _restore_counter_state had
\* found no state
InitializedUnseeded == obs.op = "initialize" /\ obs.calls = 1 /\ ~obs.state.present

\* the log it found has the current header and a valid row
FoundRecords ==
  FoundHeader(csv_header) /\ ValidRows(Tail(obs.first.rows)) # <<>>

\* the log it found is absent, or has the current header and no row
FoundNoRows ==
  ~obs.first.exists \/ (FoundHeader(csv_header) /\ Len(obs.first.rows) = 1)

\* C35: when no persisted state was found, _prepare_storage configures the
\* counter from the last valid row of a log with the current header, its
\* timestamp and its cycle number, so that the next event before the reset
\* boundary after that timestamp gets the last logged cycle number + 1; and with
\* count 0 at the present instant when the log is absent or has no rows.
C35_SeededFromLog ==
  /\ [](InitializedUnseeded /\ FoundRecords =>
          LET last == LastLogged(Tail(obs.first.rows))
          IN  counter = configure(reset_hour, last.last_timestamp, last.last_count))
  /\ [](InitializedUnseeded /\ FoundNoRows => counter = configure(reset_hour, now, 0))
  /\ [][InitializedUnseeded /\ FoundRecords /\ obs'.op = "append" =>
          LET last == LastLogged(Tail(obs.first.rows))
          IN  now' < configure(reset_hour, last.last_timestamp, 0).next_reset =>
                obs'.row.last_count = last.last_count + 1]_vars

C35_Witness ==
  /\ obs.op = "append" /\ ~obs.state.present /\ obs.tail.found
  /\ FoundRecords /\ Len(obs.first.rows) >= 2
  /\ obs.tail.last_count = MaxCount
  /\ obs.row.last_count = MaxCount + 1

C35_WitnessNoRows ==
  /\ InitializedUnseeded /\ FoundNoRows /\ obs.first.exists /\ counter.count = 0

\* _prepare_storage raised in the first _record_event of a recorder
InitializationFailed == obs.op \in {"mkdir", "create", "read", "scan"}

\* the counter _restore_counter_state left when it found obs.state
CounterOnEntry ==
  IF obs.state.present
    THEN configure(reset_hour, obs.state.last_timestamp, obs.state.last_cycle)
    ELSE NewCounter

\* the failure left the log and the counter as they were
LeftUnchanged ==
  /\ disk.log = obs.first
  /\ counter = CounterOnEntry
  /\ counter_initialized = obs.state.present

\* C36 as stated: whatever the log was and wherever the initialization failed,
\* the log and the counter are unchanged
C36_AsStated == InitializationFailed => LeftUnchanged

\* C36: when _prepare_storage raises in _record_event, the log stays not
\* initialized, so that the next _record_event runs _prepare_storage again; the
\* log and the counter are unchanged when the directory or the file could not be
\* created, when the file could not be opened at all, and whenever the log has
\* the current header. (A log without it has been rewritten by _ensure_migrated,
\* and a counter no persisted state had configured has been seeded from it, when
\* the open that follows fails.)
C36_FailedInitialization ==
  InitializationFailed =>
    /\ ~csv_initialized
    /\ obs.op # "scan" \/ FoundHeader(csv_header) => LeftUnchanged

C36_Witness ==
  /\ InitializationFailed /\ obs.op = "scan" /\ FoundHeader(csv_header)
  /\ Len(obs.first.rows) >= 2 /\ ~obs.state.present /\ LeftUnchanged

C36_WitnessCreate ==
  /\ obs.op = "create" /\ ~disk.log.exists /\ obs.state.present /\ LeftUnchanged

\* the step of _record_event in which _prepare_storage raises
PrepareRaises(th) == pc[th] = "prepare" /\ pc'[th] = "ret"

\* C36 on the rows: the _record_event whose _prepare_storage raises returns
\* None and leaves the counter, the pending list, the spool, the log and the two
\* state stores as they are, the log not initialized
C36_RecordingFailed ==
  [][\A th \in Threads :
       PrepareRaises(th) =>
         /\ ev'[th].ret = 0 /\ ~csv_initialized'
         /\ UNCHANGED <<counter, pending_rows, spool, csv, stateStore, sidecar>>]_vars

\* reached: an event recorded by the recorder whose previous event had failed
C36_WitnessRetry ==
  \E th \in Threads :
    /\ Returned(th) /\ hist = <<NewRow(th)>> /\ csv.rows = <<NewRow(th)>>
    /\ faults = 1 /\ failed = {} /\ ~running /\ now >= 2

\* C37: with the service recording the edges and the GUI logging test events,
\* each with a recorder of its own on the same machine id and log, the cycle
\* numbers of the log never decrease from one row to the next except across a
\* reset boundary, and no cycle number is twice in the log between two reset
\* boundaries.
C37_SharedLogOrdered ==
  /\ \A i \in 1 .. (Len(csv.rows) - 1) :
       \/ csv.rows[i + 1][1] >= csv.rows[i][1]
       \/ BoundaryBetween(csv.rows[i][3], csv.rows[i + 1][3])
  /\ \A i \in DOMAIN csv.rows, j \in DOMAIN csv.rows :
       i < j /\ csv.rows[i][1] = csv.rows[j][1] =>
         BoundaryBetween(csv.rows[i][3], csv.rows[j][3])

\* C38: one event has been recorded and reset_cycle_counter has been called, in
\* any interleaving of the two threads; once both calls have returned, state.json
\* and the sidecar both hold the count of the counter in memory.
C38_StoresAgreeAfterReset ==
  AllIdle /\ manual /\ Len(hist) = 1 =>
    /\ stateStore.present /\ stateStore.last_cycle = counter.count
    /\ sidecar.present /\ sidecar.last_cycle = counter.count

\* start found one of the two persisted states and not the other
FoundOne(th) ==
  AfterStart(th) /\ ev[th].persisted_state.present # ev[th].sidecar_state.present

\* the one it found
TheOne(th) ==
  IF ev[th].persisted_state.present THEN ev[th].persisted_state ELSE ev[th].sidecar_state

\* the step is a state save of _record_event or of reset_cycle_counter
SaveStep(labels) == \E th \in Threads : pc[th] \in labels

\* C39: a start that finds one of the two persisted states seeds the counter
\* from it and leaves both stores as it found them; a store that is absent
\* comes into being only by a save of _record_event or of reset_cycle_counter.
C39_StartWritesNoMissingStore ==
  /\ [](\A th \in Threads :
          FoundOne(th) =>
            /\ counter = Seeded(TheOne(th))
            /\ stateStore = ev[th].persisted_state
            /\ sidecar = ev[th].sidecar_state)
  /\ [][/\ (~stateStore.present /\ stateStore'.present) =>
             SaveStep({"save_state", "reset_save_state"})
        /\ (~sidecar.present /\ sidecar'.present) =>
             SaveStep({"save_sidecar", "reset_save_sidecar"})]_vars

C39_Witness ==
  \E th \in Threads :
    /\ FoundOne(th) /\ pc[th] = "setup_gpio"
    /\ stateStore.present /\ ~sidecar.present
    /\ counter.count = stateStore.last_cycle /\ counter.count >= 1

C39_WitnessSidecar ==
  \E th \in Threads :
    /\ FoundOne(th) /\ pc[th] = "setup_gpio"
    /\ ~stateStore.present /\ sidecar.present
    /\ counter.count = sidecar.last_cycle /\ counter.count >= 1

\* C40: between two operations, events_logged is the number of events of this
\* process for which _record_event returned a cycle number (hist holds the row
\* of each of them), on the path of the edges and on the path of the test
\* events.
C40_EventsLoggedCountsRecorded ==
  AllIdle => events_logged = Len(hist)
====
